---- MODULE Spec2Model ----
(***************************************************************************)
(* Model of the voice-bot client: the transport session of the hook        *)
(* useWebSocketAudio (src/src/services/WebSocketService.ts), the call      *)
(* state it keeps, and the playback queue AudioQueue                       *)
(* (src/src/utils/AudioUtils.ts).                                          *)
(*                                                                         *)
(* One action is one task of the browser's event loop: a call made by the  *)
(* page, a timer callback, a socket event, a user gesture.  Continuations  *)
(* that JavaScript runs before the next task (the part of playAudioChunk   *)
(* after its await, the callbacks of a resumed AudioContext, the close     *)
(* event that follows an error event) are kept in micro / closeDue, and    *)
(* no other task runs while one of them is due.                            *)
(*                                                                         *)
(* Time is counted in units of the base backoff delay (1000 ms).           *)
(*                                                                         *)
(* The platform is taken as its specifications describe it: a close event  *)
(* follows an error event in the same task; an AudioContext starts running *)
(* in the task that settles its outstanding resume() promises, and it      *)
(* keeps running once it runs; continuations run in the order in which     *)
(* they were queued.                                                       *)
(***************************************************************************)
EXTENDS Integers, Sequences, FiniteSets, TLC

\* ---------------------------------------------------------------- bounds
MaxSockets == 3        \* sockets the session creates in one behaviour
MaxHandoverSockets == 4 \* the same, where only the open handlers are followed
MaxChunks == 3         \* chunks handed to addChunk in one behaviour
MaxWaiters == 4        \* resume() promises outstanding at one time
MaxPpcTimers == 1      \* delayed playPendingChunks timers outstanding
MaxRecordings == 2     \* recorders the page creates in one behaviour
MaxCaptured == 3       \* microphone chunks captured in one behaviour
MaxWraps == 1          \* one-time onopen wrappers installed on one socket
MaxTeardownChunks == 1 \* chunks of a call, where the reconnect timer is followed

\* ------------------------------------------------------ program constants
maxReconnectAttempts == 5
CONNECTION_COOLDOWN_MS == 5000
ConnectionTimeoutMs == 10000
BaseBackoffMs == 1000
MaxBackoffMs == 30000
NormalClosure == 1000

\* close codes the platform delivers: normal, no status received, abnormal
CloseCodes == {NormalClosure, 1005, 1006}
StreamIds == {"sA", "sB"}
\* start frames: without and with a contact name
StartFrames ==
  { [callId |-> "call1", contactId |-> "contact1", contactName |-> ""],
    [callId |-> "call2", contactId |-> "contact2", contactName |-> "Ann"] }
Null == "null"
NoTimer == -1
\* what the page sends: recorded audio (base64) and the recording marks
Payloads == {"chunkA", "chunkB"}
MarkNames == {"recording_started", "recording_stopped"}
Undefined == -1

\* ----------------------------------------------------------------- state
VARIABLES
  \* transport session (useWebSocketAudio)
  status, error, socketRef, sockets,
  reconnectTimeoutRef, reconnectTimer, reconnectAttemptsRef, isReconnectingRef,
  heartbeatIntervalRef, heartbeats, sinceAttempt, connectionInProgressRef,
  closeDue,
  \* outbound messages
  sent, sendAudioResult,
  \* call session state
  activeCall, canPlayAudioRef,
  \* playback queue (AudioQueue) and the output device
  clientChunks, vendorChunks, audioContext, isAudioContextReady, pendingChunks,
  isClientPlaying, isVendorPlaying, currentClientStreamId, currentVendorStreamId,
  listening, allowed, waiters, ppcTimers, micro, playing,
  \* history
  added, played, lastOp, lastClose, lastStart,
  \* codec: a sample, the byte it is encoded to or that arrived, its decoding
  pcmSample, mulaw, decoded,
  \* microphone (AudioBotPage): the streaming flag, the recorder the page
  \* holds, the recorders created, getUserMedia promises outstanding, chunks
  \* captured, the ondataavailable handlers in flight, and the marks and media
  \* frames the page has sent, in order
  isStreaming, mediaRecorderRef, recorders, userMedia, captured, handlers, wire

connVars == <<status, error, socketRef, sockets, reconnectTimeoutRef,
              reconnectTimer, reconnectAttemptsRef, isReconnectingRef,
              heartbeatIntervalRef, heartbeats, sinceAttempt,
              connectionInProgressRef, closeDue>>
sendVars == <<sent, sendAudioResult>>
callVars == <<activeCall, canPlayAudioRef>>
queueVars == <<clientChunks, vendorChunks, audioContext, isAudioContextReady,
               pendingChunks, isClientPlaying, isVendorPlaying,
               currentClientStreamId, currentVendorStreamId, waiters, micro,
               playing, added, played>>
deviceVars == <<listening, allowed, ppcTimers>>
codecVars == <<pcmSample, mulaw, decoded>>
recorderVars == <<isStreaming, mediaRecorderRef, recorders, userMedia, captured,
                  handlers, wire>>
vars == <<connVars, sendVars, callVars, queueVars, deviceVars, lastOp, lastClose,
         lastStart, codecVars, recorderVars>>

Min(a, b) == IF a < b THEN a ELSE b

RECURSIVE Pow2(_)
Pow2(n) == IF n <= 0 THEN 1 ELSE 2 * Pow2(n - 1)

Ticks(ms) == ms \div BaseBackoffMs
CooldownTicks == Ticks(CONNECTION_COOLDOWN_MS)

\* ------------------------------------------------- AudioQueue (operators)
\* The queue as one record, so that the methods compose as they call each
\* other in the source.
Q == [clientChunks |-> clientChunks, vendorChunks |-> vendorChunks,
      ctx |-> audioContext, ready |-> isAudioContextReady,
      pending |-> pendingChunks,
      isClientPlaying |-> isClientPlaying, isVendorPlaying |-> isVendorPlaying,
      curClient |-> currentClientStreamId, curVendor |-> currentVendorStreamId,
      waiters |-> waiters, micro |-> micro]

SetQ(q) ==
  /\ clientChunks' = q.clientChunks
  /\ vendorChunks' = q.vendorChunks
  /\ audioContext' = q.ctx
  /\ isAudioContextReady' = q.ready
  /\ pendingChunks' = q.pending
  /\ isClientPlaying' = q.isClientPlaying
  /\ isVendorPlaying' = q.isVendorPlaying
  /\ currentClientStreamId' = q.curClient
  /\ currentVendorStreamId' = q.curVendor
  /\ waiters' = q.waiters
  /\ micro' = q.micro

EmptyBuffers == [s \in StreamIds |-> <<>>]

\* audioContext.resume().then(cb): the promise settles when the device runs.
Resume(q, cb) == [q EXCEPT !.waiters = Append(@, cb)]

\* playAudioChunk up to its await: the safety check and the playing flags.
\* The rest (decode, createBufferSource, start) is the continuation "unit".
playAudioChunk(q, c) ==
  IF q.ctx # "running"
    THEN [q EXCEPT !.pending = Append(@, c)]
    ELSE LET q1 == IF c.vendor
                     THEN [q EXCEPT !.isVendorPlaying = TRUE, !.curVendor = c.sid]
                     ELSE [q EXCEPT !.isClientPlaying = TRUE, !.curClient = c.sid]
         IN [q1 EXCEPT !.micro = Append(@, [k |-> "unit", c |-> c])]

RECURSIVE PlayAll(_, _)
PlayAll(q, cs) ==
  IF cs = <<>> THEN q ELSE PlayAll(playAudioChunk(q, Head(cs)), Tail(cs))

playPendingChunksKeep(q) ==
  IF q.ctx = Null THEN q
  ELSE IF q.ctx # "running" THEN Resume(q, "ppc")
  ELSE LET q1 == [q EXCEPT !.ready = TRUE]
       IN IF Len(q1.pending) > 0 THEN PlayAll(q1, q1.pending) ELSE q1

playPendingChunks(q) ==
  IF q.ctx = Null THEN q
  ELSE IF q.ctx # "running" THEN Resume(q, "ppc")
  ELSE LET q1 == [q EXCEPT !.ready = TRUE]
       IN IF Len(q1.pending) > 0
            THEN PlayAll([q1 EXCEPT !.pending = <<>>], q1.pending)
            ELSE q1

\* new AudioContext(): the state of the new context, or "throw".
NewContextOutcomes(a) == IF a THEN {"running", "suspended", "throw"}
                                 ELSE {"suspended", "throw"}

initializeAudioRecreate(q, fresh) ==
  IF fresh = "throw" THEN q
  ELSE LET q1 == [q EXCEPT !.ctx = fresh]
           q2 == IF q1.ctx # "running" THEN Resume(q1, "init") ELSE q1
       IN playPendingChunks([q2 EXCEPT !.ready = TRUE])

\* AudioQueue.initializeAudio; `fresh` is the outcome of new AudioContext()
\* should the call construct one.
initializeAudio(q, fresh) ==
  IF q.ready /\ q.ctx = "running" THEN playPendingChunks(q)
  ELSE IF q.ctx = Null /\ fresh = "throw" THEN q
  ELSE LET q1 == IF q.ctx = Null THEN [q EXCEPT !.ctx = fresh] ELSE q
           q2 == IF q1.ctx # "running" THEN Resume(q1, "init") ELSE q1
       IN playPendingChunks([q2 EXCEPT !.ready = TRUE])

initializeAudioResult(q, fresh) ==
  IF q.ready /\ q.ctx = "running" THEN TRUE
  ELSE IF q.ctx = Null /\ fresh = "throw" THEN FALSE
  ELSE TRUE

\* streamChunks[chunk] = payload, or push.
StoreChunk(buf, c) ==
  IF c.idx # Undefined /\ c.idx < Len(buf[c.sid])
    THEN [buf EXCEPT ![c.sid][c.idx + 1] = c.id]
    ELSE [buf EXCEPT ![c.sid] = Append(@, c.id)]

Running(q) == q.ready /\ q.ctx = "running"

PlayOrEnqueueFront(q, p) ==
  IF Running(q) THEN playAudioChunk(q, p)
                ELSE [q EXCEPT !.pending = <<p>> \o @]

PlayOrEnqueueBoth(q, p) ==
  IF Running(q) THEN [playAudioChunk(q, p) EXCEPT !.pending = Append(@, p)]
                ELSE [q EXCEPT !.pending = Append(@, p)]

\* as PlayOrEnqueue, but one track waits while the other one plays
PlayOrEnqueueExclusive(q, p) ==
  IF Running(q) /\ ~(IF p.vendor THEN q.isClientPlaying ELSE q.isVendorPlaying)
    THEN playAudioChunk(q, p)
    ELSE [q EXCEPT !.pending = Append(@, p)]

PlayOrEnqueue(q, p) ==
  IF Running(q) THEN playAudioChunk(q, p)
                ELSE [q EXCEPT !.pending = Append(@, p)]

\* as addChunk, without the initialization attempt
addChunkNoRetry(q, c, fresh) ==
  LET p == [id |-> c.id, sid |-> c.sid, vendor |-> c.vendor, bad |-> c.bad]
      q1 == IF c.vendor
              THEN [q EXCEPT !.vendorChunks = StoreChunk(@, c)]
              ELSE [q EXCEPT !.clientChunks = StoreChunk(@, c)]
  IN PlayOrEnqueue(q1, p)

addChunk(q, c, fresh) ==
  LET p == [id |-> c.id, sid |-> c.sid, vendor |-> c.vendor, bad |-> c.bad]
      q1 == IF c.vendor
              THEN [q EXCEPT !.vendorChunks = StoreChunk(@, c)]
              ELSE [q EXCEPT !.clientChunks = StoreChunk(@, c)]
      q2 == IF ~Running(q1) THEN initializeAudio(q1, fresh) ELSE q1
  IN PlayOrEnqueue(q2, p)

\* as clear, but it also gives up the device context
clearAndClose(q) ==
  [q EXCEPT !.clientChunks = EmptyBuffers, !.vendorChunks = EmptyBuffers,
            !.pending = <<>>,
            !.isClientPlaying = FALSE, !.isVendorPlaying = FALSE,
            !.curClient = Null, !.curVendor = Null,
            !.ctx = Null, !.ready = FALSE]

clear(q) ==
  [q EXCEPT !.clientChunks = EmptyBuffers, !.vendorChunks = EmptyBuffers,
            !.pending = <<>>,
            !.isClientPlaying = FALSE, !.isVendorPlaying = FALSE,
            !.curClient = Null, !.curVendor = Null]

\* The continuations JavaScript runs before the next task.
\* A settled resume() promise runs the callback registered with it.
ResumeCallback(q, cb) ==
  IF cb = "gesture" THEN playPendingChunks([q EXCEPT !.ready = TRUE])
  ELSE IF q.ctx # "running" THEN q
  ELSE IF cb = "init" THEN playPendingChunks([q EXCEPT !.ready = TRUE])
  ELSE playPendingChunks(q)

\* as UnitFailed, but the failure also gives up the units queued behind it
\* and the readiness of the device
UnitFailedStopsPlayback(q, c) ==
  [q EXCEPT !.micro = <<>>, !.ready = FALSE,
            !.isVendorPlaying = IF c.vendor THEN FALSE ELSE @,
            !.isClientPlaying = IF c.vendor THEN @ ELSE FALSE]

\* playAudioChunk after its await, when the decode or the start throws.
UnitFailed(q, c) ==
  IF c.vendor THEN [q EXCEPT !.isVendorPlaying = FALSE]
              ELSE [q EXCEPT !.isClientPlaying = FALSE]

\* lastStart: the start frame, when the latest task was the handling of one.
NoStart == [callId |-> Null, contactId |-> Null, contactName |-> Null]

\* ------------------------------------------------------------------ codec
\* Samples are amplitudes n of 32767: the sample n / 32767, which the encoder
\* scales back to n.  A decoded sample is an entry of the table over 32768.
SampleScale == 32767
DecodeScale == 32768
Samples == -SampleScale..SampleScale
Bytes == 0..255
NoSample == -32768
NoByte == -1
NoDecoded == 32768

Abs(x) == IF x < 0 THEN -x ELSE x

MULAW_DECODE_TABLE ==
  <<
     -32124, -31100, -30076, -29052, -28028, -27004, -25980, -24956,
     -23932, -22908, -21884, -20860, -19836, -18812, -17788, -16764,
     -15996, -15484, -14972, -14460, -13948, -13436, -12924, -12412,
     -11900, -11388, -10876, -10364, -9852, -9340, -8828, -8316,
     -7932, -7676, -7420, -7164, -6908, -6652, -6396, -6140,
     -5884, -5628, -5372, -5116, -4860, -4604, -4348, -4092,
     -3900, -3772, -3644, -3516, -3388, -3260, -3132, -3004,
     -2876, -2748, -2620, -2492, -2364, -2236, -2108, -1980,
     -1884, -1820, -1756, -1692, -1628, -1564, -1500, -1436,
     -1372, -1308, -1244, -1180, -1116, -1052, -988, -924,
     -876, -844, -812, -780, -748, -716, -684, -652,
     -620, -588, -556, -524, -492, -460, -428, -396,
     -372, -356, -340, -324, -308, -292, -276, -260,
     -244, -228, -212, -196, -180, -164, -148, -132,
     -120, -112, -104, -96, -88, -80, -72, -64,
     -56, -48, -40, -32, -24, -16, -8, 0,
     32124, 31100, 30076, 29052, 28028, 27004, 25980, 24956,
     23932, 22908, 21884, 20860, 19836, 18812, 17788, 16764,
     15996, 15484, 14972, 14460, 13948, 13436, 12924, 12412,
     11900, 11388, 10876, 10364, 9852, 9340, 8828, 8316,
     7932, 7676, 7420, 7164, 6908, 6652, 6396, 6140,
     5884, 5628, 5372, 5116, 4860, 4604, 4348, 4092,
     3900, 3772, 3644, 3516, 3388, 3260, 3132, 3004,
     2876, 2748, 2620, 2492, 2364, 2236, 2108, 1980,
     1884, 1820, 1756, 1692, 1628, 1564, 1500, 1436,
     1372, 1308, 1244, 1180, 1116, 1052, 988, 924,
     876, 844, 812, 780, 748, 716, 684, 652,
     620, 588, 556, 524, 492, 460, 428, 396,
     372, 356, 340, 324, 308, 292, 276, 260,
     244, 228, 212, 196, 180, 164, 148, 132,
     120, 112, 104, 96, 88, 80, 72, 64,
     56, 48, 40, 32, 24, 16, 8, 0
  >>

\* Math.floor(255 * Math.log(1 + 255 * sample / 32767) / Math.log(256) + 0.5)
\* is at least v exactly when sample >= 32767 * (256^((v - 0.5) / 255) - 1) / 255;
\* MulawSteps[v] is the least whole amplitude for which that holds.
MulawSteps ==
  <<
     2, 5, 8, 11, 14, 17, 20, 23, 27, 30,
     33, 37, 41, 44, 48, 52, 56, 60, 64, 68,
     73, 77, 82, 86, 91, 96, 101, 106, 111, 116,
     121, 127, 133, 138, 144, 150, 156, 162, 169, 175,
     182, 189, 196, 203, 210, 218, 225, 233, 241, 249,
     257, 266, 274, 283, 292, 302, 311, 321, 331, 341,
     351, 361, 372, 383, 394, 406, 418, 430, 442, 454,
     467, 480, 494, 507, 521, 536, 550, 565, 580, 596,
     612, 628, 645, 662, 679, 697, 715, 733, 752, 772,
     792, 812, 832, 854, 875, 897, 920, 943, 966, 990,
     1015, 1040, 1066, 1092, 1119, 1146, 1174, 1203, 1232, 1262,
     1293, 1324, 1356, 1388, 1422, 1456, 1491, 1526, 1563, 1600,
     1638, 1676, 1716, 1757, 1798, 1840, 1884, 1928, 1973, 2019,
     2067, 2115, 2164, 2215, 2266, 2319, 2372, 2427, 2484, 2541,
     2600, 2660, 2721, 2784, 2848, 2913, 2980, 3048, 3118, 3189,
     3262, 3337, 3413, 3491, 3570, 3652, 3735, 3820, 3906, 3995,
     4086, 4178, 4273, 4370, 4469, 4570, 4673, 4779, 4886, 4997,
     5109, 5224, 5342, 5462, 5585, 5711, 5839, 5970, 6105, 6242,
     6382, 6525, 6671, 6820, 6973, 7129, 7289, 7452, 7618, 7789,
     7963, 8141, 8322, 8508, 8698, 8892, 9090, 9293, 9500, 9712,
     9928, 10149, 10375, 10606, 10842, 11083, 11330, 11582, 11839, 12102,
     12371, 12646, 12927, 13214, 13507, 13807, 14113, 14426, 14746, 15073,
     15407, 15749, 16098, 16454, 16819, 17192, 17572, 17961, 18359, 18766,
     19181, 19605, 20039, 20483, 20936, 21399, 21872, 22356, 22850, 23355,
     23871, 24399, 24938, 25489, 26052, 26628, 27216, 27817, 28431, 29059,
     29701, 30357, 31027, 31712, 32412
  >>

MulawValue(sample) == Cardinality({v \in 1..255 : MulawSteps[v] <= sample})

\* sign | x for sign in {0, 0x80} and x in 0..255
SignOr(sign, x) == IF sign = 128 /\ x < 128 THEN x + 128 ELSE x

\* linearToMulaw(n / 32767)
linearToMulaw(n) ==
  LET sample == Min(Abs(n), SampleScale)
      sign == IF n < 0 THEN 128 ELSE 0
  IN IF sample = 0 THEN sign
     ELSE SignOr(sign, 255 - Min(MulawValue(sample), 255))

\* as MulawToLinear, but the sign of the entry is dropped
MulawToLinearUnsigned(b) == Abs(MULAW_DECODE_TABLE[b + 1])

\* convertMuLawToAudio for one byte: the numerator of the sample over 32768
MulawToLinear(b) == MULAW_DECODE_TABLE[b + 1]

\* the recorder encodes a sample
Encode ==
  /\ pcmSample # NoSample /\ mulaw = NoByte
  /\ mulaw' = linearToMulaw(pcmSample)
  /\ lastOp' = "encode"
  /\ UNCHANGED <<pcmSample, decoded, connVars, sendVars, callVars, queueVars,
                 deviceVars, lastClose, lastStart, recorderVars>>

\* the player decodes a byte
Decode ==
  /\ mulaw # NoByte /\ decoded = NoDecoded
  /\ decoded' = MulawToLinear(mulaw)
  /\ lastOp' = "decode"
  /\ UNCHANGED <<pcmSample, mulaw, connVars, sendVars, callVars, queueVars,
                 deviceVars, lastClose, lastStart, recorderVars>>

\* ------------------------------------------------------ transport session
\* lastClose: the code of the latest close event handled by the onclose of a
\* connect() socket and the attempt counter it found, until connect() is
\* called again.
NoClose == [code |-> 0, attempts |-> 0]

\* sent: the messages the latest task handed to the open socket, in order.
\* sendAudioResult: the argument of a sendAudio call and the fate of the
\* promise it returned, when the latest task was that call.
NoSendAudio == [payload |-> Null, promise |-> Null]

\* a task that calls none of sendAudio, sendMark, sendCommunicationMessage
Silent == sent' = <<>> /\ sendAudioResult' = NoSendAudio

Idle == closeDue = 0 /\ micro = <<>>

NewSocket(kind, id) ==
  [st |-> "CONNECTING", kind |-> kind, wasOpen |-> FALSE,
   onopen |-> [kind |-> kind, owner |-> id, wraps |-> 0],
   timeout |-> IF kind = "connect" THEN Ticks(ConnectionTimeoutMs) ELSE NoTimer]

\* WebSocket.close(): a no-op on a socket already closing or closed.
CloseSocket(ss, i) ==
  IF i # 0 /\ ss[i].st \in {"CONNECTING", "OPEN"}
    THEN [ss EXCEPT ![i].st = "CLOSING"] ELSE ss

Live(i) == sockets[i].st \in {"CONNECTING", "OPEN"}

\* window.clearInterval of the heartbeat timer the ref holds, if it holds one;
\* n counts the interval timers that are armed.
ClearHeartbeat(n) == IF heartbeatIntervalRef THEN n - 1 ELSE n

StartHeartbeatNoClear(n) == n + 1

\* onopen: the timer armed earlier is cleared, then a new one is armed.
StartHeartbeat(n) == ClearHeartbeat(n) + 1

\* socketRef.current.send(m) behind the readyState check of the senders.
SendIfOpen(ss, ref, snt, ev, data) ==
  IF ref # 0 /\ ss[ref].st = "OPEN"
    THEN Append(snt, [to |-> ref, ev |-> ev, data |-> data]) ELSE snt

\* sendCommunicationMessage, n times in a row.
RECURSIVE sendCommunicationMessage(_, _, _, _)
sendCommunicationMessage(ss, ref, snt, n) ==
  IF n = 0 THEN snt
  ELSE sendCommunicationMessage(ss, ref,
         SendIfOpen(ss, ref, snt, "handle_communications", Null), n - 1)

backoffTimeLinear(n) == Min(BaseBackoffMs * n, MaxBackoffMs)

backoffTime(n) == Min(BaseBackoffMs * Pow2(n - 1), MaxBackoffMs)

ConnectBlockedNoCooldown ==
  \/ socketRef # 0 /\ sockets[socketRef].st = "OPEN"
  \/ socketRef # 0 /\ sockets[socketRef].st = "CONNECTING"
  \/ isReconnectingRef
  \/ connectionInProgressRef

\* The guards of connect(): each one returns before any state is touched.
ConnectBlocked ==
  \/ socketRef # 0 /\ sockets[socketRef].st = "OPEN"
  \/ socketRef # 0 /\ sockets[socketRef].st = "CONNECTING"
  \/ isReconnectingRef
  \/ sinceAttempt < CooldownTicks
  \/ connectionInProgressRef

\* connect(); rt is the reconnect timer as the call finds it.
connect(rt) ==
  IF ConnectBlocked
    THEN /\ reconnectTimer' = rt
         /\ UNCHANGED <<status, error, socketRef, sockets, reconnectTimeoutRef,
                        reconnectAttemptsRef, isReconnectingRef, sinceAttempt,
                        connectionInProgressRef>>
    ELSE /\ connectionInProgressRef' = TRUE
         /\ sinceAttempt' = 0
         /\ reconnectTimeoutRef' = FALSE
         /\ reconnectTimer' = IF reconnectTimeoutRef THEN NoTimer ELSE rt
         /\ reconnectAttemptsRef' = 0
         /\ UNCHANGED isReconnectingRef
         /\ \/ /\ sockets' = Append(CloseSocket(sockets, socketRef),
                                    NewSocket("connect", Len(sockets) + 1))
               /\ socketRef' = Len(sockets) + 1
               /\ status' = "connecting"
               /\ UNCHANGED error
            \/ \* new WebSocket(wsUrl) throws
               /\ sockets' = CloseSocket(sockets, socketRef)
               /\ socketRef' = 0
               /\ status' = "error"
               /\ error' = "Failed to connect"

Connect ==
  /\ Idle
  /\ connect(reconnectTimer)
  /\ UNCHANGED codecVars
  /\ UNCHANGED recorderVars
  /\ lastStart' = NoStart
  /\ lastOp' = "connect"
  /\ lastClose' = NoClose
  /\ Silent
  /\ UNCHANGED <<heartbeatIntervalRef, heartbeats, closeDue, callVars, queueVars, deviceVars>>

\* The callback of the timer armed by onclose.
ReconnectTimerFires ==
  /\ Idle
  /\ reconnectTimer = 0
  /\ connect(NoTimer)
  /\ UNCHANGED codecVars
  /\ UNCHANGED recorderVars
  /\ lastStart' = NoStart
  /\ lastOp' = "reconnectTimer"
  /\ UNCHANGED lastClose
  /\ Silent
  /\ UNCHANGED <<heartbeatIntervalRef, heartbeats, closeDue, callVars, queueVars, deviceVars>>

\* The callback of the 10 s timer armed by the connect() that created i.
ConnectionTimeoutFires(i) ==
  /\ Idle
  /\ sockets[i].timeout = 0
  /\ LET ss == [sockets EXCEPT ![i].timeout = NoTimer]
     IN IF socketRef = 0 \/ sockets[socketRef].st # "OPEN"
          THEN /\ sockets' = CloseSocket(ss, socketRef)
               /\ status' = "disconnected"
               /\ error' = "Connection timeout"
          ELSE /\ sockets' = ss
               /\ UNCHANGED <<status, error>>
  /\ UNCHANGED codecVars
  /\ UNCHANGED recorderVars
  /\ lastStart' = NoStart
  /\ lastOp' = "connectionTimeout"
  /\ UNCHANGED lastClose
  /\ Silent
  /\ UNCHANGED <<socketRef, reconnectTimeoutRef, reconnectTimer,
                 reconnectAttemptsRef, isReconnectingRef, heartbeatIntervalRef, heartbeats,
                 sinceAttempt, connectionInProgressRef, closeDue,
                 callVars, queueVars, deviceVars>>

\* socket.onopen, as installed on socket i when the event is delivered.
OnOpen(i) ==
  /\ Idle
  /\ sockets[i].st = "CONNECTING"
  /\ LET h == sockets[i].onopen
         s1 == [sockets EXCEPT ![i].st = "OPEN", ![i].wasOpen = TRUE]
         s2 == IF h.kind = "connect"
                 THEN [s1 EXCEPT ![h.owner].timeout = NoTimer] ELSE s1
         s3 == IF h.wraps > 0 /\ socketRef # 0
                 THEN [s2 EXCEPT ![socketRef].onopen =
                         [kind |-> h.kind, owner |-> h.owner, wraps |-> h.wraps - 1]]
                 ELSE s2
     IN /\ sockets' = s3
        /\ status' = "connected"
        /\ IF h.kind = "connect"
             THEN /\ error' = Null
                  /\ connectionInProgressRef' = FALSE
                  /\ reconnectAttemptsRef' = 0
                  /\ isReconnectingRef' = FALSE
                  /\ heartbeats' = StartHeartbeat(heartbeats)
                  /\ heartbeatIntervalRef' = TRUE
             ELSE UNCHANGED <<error, connectionInProgressRef, reconnectAttemptsRef,
                              isReconnectingRef, heartbeatIntervalRef, heartbeats>>
        \* the handler of handleCommunications sends once, and so does each
        \* one-time wrapper after it has called the handler it wraps
        /\ sent' = sendCommunicationMessage(s1, socketRef, <<>>,
                      (IF h.kind = "hc" THEN 1 ELSE 0) + h.wraps)
  /\ sendAudioResult' = NoSendAudio
  /\ UNCHANGED codecVars
  /\ UNCHANGED recorderVars
  /\ lastStart' = NoStart
  /\ lastOp' = "open"
  /\ UNCHANGED lastClose
  /\ UNCHANGED <<socketRef, reconnectTimeoutRef, reconnectTimer, sinceAttempt,
                 closeDue, callVars, queueVars, deviceVars>>

\* as OnError, but the error gives up the scheduled reconnect
OnErrorCancelsReconnect(i) ==
  /\ Idle
  /\ sockets[i].st \in {"CONNECTING", "OPEN", "CLOSING"}
  /\ sockets' = [sockets EXCEPT ![i].st = "CLOSED"]
  /\ closeDue' = i
  /\ status' = "error"
  /\ IF sockets[i].kind = "connect"
       THEN /\ error' = "Connection error"
            /\ connectionInProgressRef' = FALSE
       ELSE /\ error' = "Failed to reconnect to WebSocket"
            /\ UNCHANGED connectionInProgressRef
  /\ reconnectTimeoutRef' = FALSE
  /\ reconnectTimer' = NoTimer
  /\ UNCHANGED codecVars
  /\ UNCHANGED recorderVars
  /\ lastStart' = NoStart
  /\ lastOp' = "error"
  /\ UNCHANGED lastClose
  /\ Silent
  /\ UNCHANGED <<socketRef,
                 reconnectAttemptsRef, isReconnectingRef, heartbeatIntervalRef, heartbeats,
                 sinceAttempt, callVars, queueVars, deviceVars>>

\* socket.onerror; the platform delivers the close event in the same task.
OnError(i) ==
  /\ Idle
  /\ sockets[i].st \in {"CONNECTING", "OPEN", "CLOSING"}
  /\ sockets' = [sockets EXCEPT ![i].st = "CLOSED"]
  /\ closeDue' = i
  /\ status' = "error"
  /\ IF sockets[i].kind = "connect"
       THEN /\ error' = "Connection error"
            /\ connectionInProgressRef' = FALSE
       ELSE /\ error' = "Failed to reconnect to WebSocket"
            /\ UNCHANGED connectionInProgressRef
  /\ UNCHANGED codecVars
  /\ UNCHANGED recorderVars
  /\ lastStart' = NoStart
  /\ lastOp' = "error"
  /\ UNCHANGED lastClose
  /\ Silent
  /\ UNCHANGED <<socketRef, reconnectTimeoutRef, reconnectTimer,
                 reconnectAttemptsRef, isReconnectingRef, heartbeatIntervalRef, heartbeats,
                 sinceAttempt, callVars, queueVars, deviceVars>>

OnCloseConnectStaleCounter(code) ==
  /\ status' = "disconnected"
  /\ socketRef' = 0
  /\ connectionInProgressRef' = FALSE
  /\ heartbeats' = ClearHeartbeat(heartbeats)
  /\ heartbeatIntervalRef' = FALSE
  /\ IF code # NormalClosure /\ reconnectAttemptsRef < maxReconnectAttempts
       THEN /\ reconnectAttemptsRef' = reconnectAttemptsRef + 1
            /\ isReconnectingRef' = TRUE
            /\ reconnectTimeoutRef' = TRUE
            /\ reconnectTimer' = Ticks(backoffTime(reconnectAttemptsRef))
       ELSE /\ isReconnectingRef' = FALSE
            /\ UNCHANGED <<reconnectAttemptsRef, reconnectTimeoutRef, reconnectTimer>>

\* socket.onclose of a socket created by connect().
OnCloseConnect(code) ==
  /\ status' = "disconnected"
  /\ socketRef' = 0
  /\ connectionInProgressRef' = FALSE
  /\ heartbeats' = ClearHeartbeat(heartbeats)
  /\ heartbeatIntervalRef' = FALSE
  /\ IF code # NormalClosure /\ reconnectAttemptsRef < maxReconnectAttempts
       THEN /\ reconnectAttemptsRef' = reconnectAttemptsRef + 1
            /\ isReconnectingRef' = TRUE
            /\ reconnectTimeoutRef' = TRUE
            /\ reconnectTimer' = Ticks(backoffTime(reconnectAttemptsRef + 1))
       ELSE /\ isReconnectingRef' = FALSE
            /\ UNCHANGED <<reconnectAttemptsRef, reconnectTimeoutRef, reconnectTimer>>

OnClose(i, code) ==
  /\ micro = <<>>
  /\ \/ closeDue = i /\ code = 1006
     \/ closeDue = 0 /\ sockets[i].wasOpen /\ sockets[i].st \in {"OPEN", "CLOSING"}
  /\ sockets' = [sockets EXCEPT ![i].st = "CLOSED"]
  /\ closeDue' = 0
  /\ IF sockets[i].kind = "connect"
       THEN OnCloseConnect(code)
       ELSE UNCHANGED <<status, socketRef, connectionInProgressRef,
                        heartbeatIntervalRef, heartbeats, reconnectAttemptsRef,
                        isReconnectingRef, reconnectTimeoutRef, reconnectTimer>>
  /\ UNCHANGED codecVars
  /\ UNCHANGED recorderVars
  /\ lastStart' = NoStart
  /\ lastOp' = IF sockets[i].kind = "connect" THEN "close" ELSE "hcClose"
  /\ lastClose' = IF sockets[i].kind = "connect"
                    THEN [code |-> code, attempts |-> reconnectAttemptsRef]
                    ELSE lastClose
  /\ Silent
  /\ UNCHANGED <<error, sinceAttempt, callVars, queueVars, deviceVars>>

resetReconnection ==
  /\ reconnectAttemptsRef' = 0
  /\ isReconnectingRef' = FALSE
  /\ reconnectTimer' = IF reconnectTimeoutRef THEN NoTimer ELSE reconnectTimer
  /\ reconnectTimeoutRef' = FALSE

\* as Disconnect, without the call of resetReconnection
DisconnectKeepsTimer ==
  /\ Idle
  /\ UNCHANGED <<reconnectAttemptsRef, isReconnectingRef, reconnectTimer,
                 reconnectTimeoutRef>>
  /\ heartbeats' = ClearHeartbeat(heartbeats)
  /\ heartbeatIntervalRef' = FALSE
  /\ IF socketRef # 0
       THEN /\ sockets' = CloseSocket(sockets, socketRef)
            /\ socketRef' = 0
            /\ status' = "disconnected"
            /\ SetQ(clear(Q))
       ELSE UNCHANGED <<sockets, socketRef, status, clientChunks, vendorChunks,
                        audioContext, isAudioContextReady, pendingChunks,
                        isClientPlaying, isVendorPlaying, currentClientStreamId,
                        currentVendorStreamId, waiters, micro>>
  /\ UNCHANGED codecVars
  /\ UNCHANGED recorderVars
  /\ lastStart' = NoStart
  /\ lastOp' = "disconnect"
  /\ UNCHANGED lastClose
  /\ Silent
  /\ UNCHANGED <<error, sinceAttempt, connectionInProgressRef, closeDue,
                 callVars, playing, added, played, deviceVars>>

\* as Disconnect, closing the playback gate as a stop frame does
DisconnectClosesGate ==
  /\ Idle
  /\ resetReconnection
  /\ heartbeats' = ClearHeartbeat(heartbeats)
  /\ heartbeatIntervalRef' = FALSE
  /\ IF socketRef # 0
       THEN /\ sockets' = CloseSocket(sockets, socketRef)
            /\ socketRef' = 0
            /\ status' = "disconnected"
            /\ SetQ(clear(Q))
       ELSE UNCHANGED <<sockets, socketRef, status, clientChunks, vendorChunks,
                        audioContext, isAudioContextReady, pendingChunks,
                        isClientPlaying, isVendorPlaying, currentClientStreamId,
                        currentVendorStreamId, waiters, micro>>
  /\ UNCHANGED codecVars
  /\ UNCHANGED recorderVars
  /\ lastStart' = NoStart
  /\ lastOp' = "disconnect"
  /\ UNCHANGED lastClose
  /\ Silent
  /\ UNCHANGED <<error, sinceAttempt, connectionInProgressRef, closeDue,
                 playing, added, played, deviceVars>>
  /\ UNCHANGED activeCall
  /\ canPlayAudioRef' = FALSE

Disconnect ==
  /\ Idle
  /\ resetReconnection
  /\ heartbeats' = ClearHeartbeat(heartbeats)
  /\ heartbeatIntervalRef' = FALSE
  /\ IF socketRef # 0
       THEN /\ sockets' = CloseSocket(sockets, socketRef)
            /\ socketRef' = 0
            /\ status' = "disconnected"
            /\ SetQ(clear(Q))
       ELSE UNCHANGED <<sockets, socketRef, status, clientChunks, vendorChunks,
                        audioContext, isAudioContextReady, pendingChunks,
                        isClientPlaying, isVendorPlaying, currentClientStreamId,
                        currentVendorStreamId, waiters, micro>>
  /\ UNCHANGED codecVars
  /\ UNCHANGED recorderVars
  /\ lastStart' = NoStart
  /\ lastOp' = "disconnect"
  /\ UNCHANGED lastClose
  /\ Silent
  /\ UNCHANGED <<error, sinceAttempt, connectionInProgressRef, closeDue,
                 callVars, playing, added, played, deviceVars>>

needsReconnection ==
  \/ socketRef # 0 /\ sockets[socketRef].st = "CLOSED"
  \/ socketRef = 0 /\ status = "connected"

handleCommunications ==
  /\ Idle
  /\ IF needsReconnection
       THEN \/ /\ sockets' = Append(sockets, NewSocket("hc", Len(sockets) + 1))
               /\ socketRef' = Len(sockets) + 1
               /\ sent' = <<>>
               /\ UNCHANGED <<status, error>>
            \/ \* new WebSocket(wsUrl) throws
               /\ socketRef' = 0
               /\ status' = "error"
               /\ error' = "Failed to reconnect to WebSocket"
               /\ sent' = <<>>
               /\ UNCHANGED sockets
       ELSE IF socketRef # 0 /\ sockets[socketRef].st = "OPEN"
         THEN /\ sent' = sendCommunicationMessage(sockets, socketRef, <<>>, 1)
              /\ UNCHANGED <<sockets, socketRef, status, error>>
       ELSE IF socketRef # 0 /\ sockets[socketRef].st = "CONNECTING"
         THEN /\ sockets[socketRef].onopen.wraps < MaxWraps
              /\ sockets' = [sockets EXCEPT ![socketRef].onopen.wraps = @ + 1]
              /\ sent' = <<>>
              /\ UNCHANGED <<socketRef, status, error>>
         ELSE /\ sent' = <<>>
              /\ UNCHANGED <<sockets, socketRef, status, error>>
  /\ sendAudioResult' = NoSendAudio
  /\ UNCHANGED codecVars
  /\ UNCHANGED recorderVars
  /\ lastStart' = NoStart
  /\ lastOp' = "handleCommunications"
  /\ UNCHANGED lastClose
  /\ UNCHANGED <<reconnectTimeoutRef, reconnectTimer, reconnectAttemptsRef,
                 isReconnectingRef, heartbeatIntervalRef, heartbeats, sinceAttempt,
                 connectionInProgressRef, closeDue, callVars, queueVars, deviceVars>>

\* One unit of time passes; a timer that is due fires first.
TimerDown(t) == IF t > 0 THEN t - 1 ELSE t

Tick ==
  /\ Idle
  /\ reconnectTimer # 0
  /\ \A i \in DOMAIN sockets : sockets[i].timeout # 0
  /\ \/ sinceAttempt < CooldownTicks
     \/ reconnectTimer > 0
     \/ \E i \in DOMAIN sockets : sockets[i].timeout > 0
  /\ sinceAttempt' = Min(sinceAttempt + 1, CooldownTicks)
  /\ reconnectTimer' = TimerDown(reconnectTimer)
  /\ sockets' = [i \in DOMAIN sockets |->
                   [sockets[i] EXCEPT !.timeout = TimerDown(@)]]
  /\ UNCHANGED codecVars
  /\ UNCHANGED recorderVars
  /\ lastStart' = NoStart
  /\ lastOp' = "tick"
  /\ UNCHANGED lastClose
  /\ Silent
  /\ UNCHANGED <<status, error, socketRef, reconnectTimeoutRef,
                 reconnectAttemptsRef, isReconnectingRef, heartbeatIntervalRef, heartbeats,
                 connectionInProgressRef, closeDue, callVars, queueVars, deviceVars>>

\* ------------------------------------------------------- outbound messages
SendAudioUnchecked(p) ==
  /\ Idle
  /\ sent' = <<[to |-> socketRef, ev |-> "media", data |-> p]>>
  /\ sendAudioResult' = [payload |-> p, promise |-> "resolved"]
  /\ UNCHANGED codecVars
  /\ UNCHANGED recorderVars
  /\ lastStart' = NoStart
  /\ lastOp' = "sendAudio"
  /\ UNCHANGED <<connVars, callVars, queueVars, deviceVars, lastClose>>

\* sendAudio(base64Audio): the promise it returns rejects unless the socket
\* of the session is open.
SendAudio(p) ==
  /\ Idle
  /\ IF socketRef # 0 /\ sockets[socketRef].st = "OPEN"
       THEN /\ sent' = SendIfOpen(sockets, socketRef, <<>>, "media", p)
            /\ sendAudioResult' = [payload |-> p, promise |-> "resolved"]
       ELSE /\ sent' = <<>>
            /\ sendAudioResult' = [payload |-> p, promise |-> "rejected"]
  /\ UNCHANGED codecVars
  /\ UNCHANGED recorderVars
  /\ lastStart' = NoStart
  /\ lastOp' = "sendAudio"
  /\ UNCHANGED <<connVars, callVars, queueVars, deviceVars, lastClose>>

SendMarkFrame(name) == [streamSid |-> activeCall.callId, name |-> name]

SendMarkAnyState(name) ==
  /\ Idle
  /\ IF activeCall.callId # Null
       THEN sent' = <<[to |-> socketRef, ev |-> "mark",
                       data |-> SendMarkFrame(name)]>>
       ELSE sent' = <<>>
  /\ sendAudioResult' = NoSendAudio
  /\ UNCHANGED codecVars
  /\ UNCHANGED recorderVars
  /\ lastStart' = NoStart
  /\ lastOp' = "sendMark"
  /\ UNCHANGED <<connVars, callVars, queueVars, deviceVars,
                 lastClose>>

\* sendMark(markName): needs an open socket and the id of a call.
SendMark(name) ==
  /\ Idle
  /\ IF socketRef # 0 /\ sockets[socketRef].st = "OPEN" /\ activeCall.callId # Null
       THEN sent' = SendIfOpen(sockets, socketRef, <<>>, "mark",
                               SendMarkFrame(name))
       ELSE sent' = <<>>
  /\ sendAudioResult' = NoSendAudio
  /\ UNCHANGED codecVars
  /\ UNCHANGED recorderVars
  /\ lastStart' = NoStart
  /\ lastOp' = "sendMark"
  /\ UNCHANGED <<connVars, callVars, queueVars, deviceVars,
                 lastClose>>

\* A tick of an armed heartbeat interval: sendHeartbeat.  The interval's phase
\* against the other timers is left free.
sendHeartbeat ==
  /\ Idle
  /\ heartbeats > 0
  /\ sent' = SendIfOpen(sockets, socketRef, <<>>, "ping", Null)
  /\ sendAudioResult' = NoSendAudio
  /\ UNCHANGED codecVars
  /\ UNCHANGED recorderVars
  /\ lastStart' = NoStart
  /\ lastOp' = "heartbeat"
  /\ UNCHANGED <<connVars, callVars, queueVars, deviceVars,
                 lastClose>>

\* ------------------------------------------------- microphone (AudioBotPage)
\* sendMark as the page calls it for recorder r; a mark that was sent is
\* appended to the wire.
RecorderSendMark(name, r) ==
  /\ sent' = IF socketRef # 0 /\ sockets[socketRef].st = "OPEN"
                 /\ activeCall.callId # Null
               THEN SendIfOpen(sockets, socketRef, <<>>, "mark",
                               SendMarkFrame(name))
               ELSE <<>>
  /\ wire' = IF sent' # <<>>
               THEN Append(wire, [ev |-> "mark", name |-> name, rec |-> r,
                                  cap |-> 0])
               ELSE wire

\* A click on the microphone button: toggleMicrophone up to its first await.
toggleMicrophone ==
  /\ Idle
  /\ IF isStreaming
       THEN IF mediaRecorderRef # 0
              THEN /\ recorders' = [recorders EXCEPT ![mediaRecorderRef] =
                                      [state |-> "inactive", finalDue |-> TRUE]]
                   /\ mediaRecorderRef' = 0
                   /\ isStreaming' = FALSE
                   /\ RecorderSendMark("recording_stopped", mediaRecorderRef)
                   /\ UNCHANGED userMedia
              ELSE /\ sent' = <<>>
                   /\ UNCHANGED <<recorders, mediaRecorderRef, isStreaming,
                                  userMedia, wire>>
       ELSE /\ userMedia + Len(recorders) < MaxRecordings
            /\ userMedia' = userMedia + 1
            /\ sent' = <<>>
            /\ UNCHANGED <<recorders, mediaRecorderRef, isStreaming, wire>>
  /\ sendAudioResult' = NoSendAudio
  /\ UNCHANGED <<captured, handlers>>
  /\ UNCHANGED codecVars
  /\ lastStart' = NoStart
  /\ lastOp' = "toggleMicrophone"
  /\ UNCHANGED <<connVars, callVars, queueVars, deviceVars, lastClose>>

\* getUserMedia resolves: the rest of the start branch of toggleMicrophone.
getUserMediaResolves ==
  /\ Idle
  /\ userMedia > 0
  /\ userMedia' = userMedia - 1
  /\ recorders' = Append(recorders, [state |-> "recording", finalDue |-> FALSE])
  /\ mediaRecorderRef' = Len(recorders) + 1
  /\ isStreaming' = TRUE
  /\ RecorderSendMark("recording_started", Len(recorders) + 1)
  /\ sendAudioResult' = NoSendAudio
  /\ UNCHANGED <<captured, handlers>>
  /\ UNCHANGED codecVars
  /\ lastStart' = NoStart
  /\ lastOp' = "getUserMedia"
  /\ UNCHANGED <<connVars, callVars, queueVars, deviceVars, lastClose>>

\* getUserMedia rejects: the catch of toggleMicrophone logs the error.
getUserMediaRejects ==
  /\ Idle
  /\ userMedia > 0
  /\ userMedia' = userMedia - 1
  /\ Silent
  /\ UNCHANGED <<isStreaming, mediaRecorderRef, recorders, captured, handlers,
                 wire>>
  /\ UNCHANGED codecVars
  /\ lastStart' = NoStart
  /\ lastOp' = "getUserMediaRejected"
  /\ UNCHANGED <<connVars, callVars, queueVars, deviceVars, lastClose>>

\* recorder.ondataavailable up to its first await: a timeslice of a running
\* recorder r, or the last data of a recorder that was stopped; hasData is
\* event.data.size > 0.
ondataavailable(r, hasData) ==
  /\ Idle
  /\ recorders[r].state = "recording" \/ recorders[r].finalDue
  /\ recorders' = [recorders EXCEPT ![r].finalDue = FALSE]
  /\ IF hasData
       THEN /\ captured < MaxCaptured
            /\ captured' = captured + 1
            /\ handlers' = handlers \cup
                 {[rec |-> r, cap |-> captured + 1, stage |-> "arrayBuffer"]}
       ELSE UNCHANGED <<captured, handlers>>
  /\ Silent
  /\ UNCHANGED <<isStreaming, mediaRecorderRef, userMedia, wire>>
  /\ UNCHANGED codecVars
  /\ lastStart' = NoStart
  /\ lastOp' = "dataavailable"
  /\ UNCHANGED <<connVars, callVars, queueVars, deviceVars, lastClose>>

\* event.data.arrayBuffer() of handler h resolves; the handler goes on to
\* decodeAudioData.
arrayBufferResolves(h) ==
  /\ Idle
  /\ h.stage = "arrayBuffer"
  /\ handlers' = (handlers \ {h}) \cup {[h EXCEPT !.stage = "decodeAudioData"]}
  /\ Silent
  /\ UNCHANGED <<isStreaming, mediaRecorderRef, recorders, userMedia, captured,
                 wire>>
  /\ UNCHANGED codecVars
  /\ lastStart' = NoStart
  /\ lastOp' = "arrayBuffer"
  /\ UNCHANGED <<connVars, callVars, queueVars, deviceVars, lastClose>>

\* decodeAudioData of handler h resolves: the samples are encoded and the
\* chunk is handed to sendAudio.
decodeAudioDataResolves(h) ==
  /\ Idle
  /\ h.stage = "decodeAudioData"
  /\ handlers' = handlers \ {h}
  /\ LET p == [rec |-> h.rec, cap |-> h.cap]
     IN IF socketRef # 0 /\ sockets[socketRef].st = "OPEN"
          THEN /\ sent' = SendIfOpen(sockets, socketRef, <<>>, "media", p)
               /\ sendAudioResult' = [payload |-> p, promise |-> "resolved"]
               /\ wire' = Append(wire, [ev |-> "media", name |-> "",
                                        rec |-> h.rec, cap |-> h.cap])
          ELSE /\ sent' = <<>>
               /\ sendAudioResult' = [payload |-> p, promise |-> "rejected"]
               /\ UNCHANGED wire
  /\ UNCHANGED <<isStreaming, mediaRecorderRef, recorders, userMedia, captured>>
  /\ UNCHANGED codecVars
  /\ lastStart' = NoStart
  /\ lastOp' = "decodeAudioData"
  /\ UNCHANGED <<connVars, callVars, queueVars, deviceVars, lastClose>>

\* decodeAudioData of handler h rejects: the handler ends, nothing is sent.
decodeAudioDataRejects(h) ==
  /\ Idle
  /\ h.stage = "decodeAudioData"
  /\ handlers' = handlers \ {h}
  /\ Silent
  /\ UNCHANGED <<isStreaming, mediaRecorderRef, recorders, userMedia, captured,
                 wire>>
  /\ UNCHANGED codecVars
  /\ lastStart' = NoStart
  /\ lastOp' = "decodeAudioDataRejected"
  /\ UNCHANGED <<connVars, callVars, queueVars, deviceVars, lastClose>>

\* ------------------------------------------------- inbound frames (onmessage)
InactiveCall == [isActive |-> FALSE, callId |-> Null, contactId |-> Null,
                 contactName |-> Null]

\* Sockets created by handleCommunications have no onmessage handler; a socket
\* that was open still delivers frames until its close event.
Delivers(i) ==
  /\ sockets[i].kind = "connect"
  /\ sockets[i].wasOpen
  /\ sockets[i].st \in {"OPEN", "CLOSING"}

\* media frames: both tracks, two streams, with and without a chunk index,
\* and one whose payload does not decode
MediaFrames ==
  { [sid |-> "sA", vendor |-> FALSE, idx |-> Undefined, bad |-> FALSE],
    [sid |-> "sA", vendor |-> TRUE,  idx |-> Undefined, bad |-> FALSE],
    [sid |-> "sB", vendor |-> FALSE, idx |-> Undefined, bad |-> FALSE],
    [sid |-> "sA", vendor |-> FALSE, idx |-> 0,         bad |-> FALSE],
    [sid |-> "sA", vendor |-> FALSE, idx |-> Undefined, bad |-> TRUE] }

WithId(f, n) == [id |-> n, sid |-> f.sid, vendor |-> f.vendor, idx |-> f.idx,
                 bad |-> f.bad]

\* the frames of one call: one per track
CallFrames ==
  { [sid |-> "sA", vendor |-> FALSE, idx |-> Undefined, bad |-> FALSE],
    [sid |-> "sB", vendor |-> TRUE,  idx |-> 0,         bad |-> FALSE] }

\* The media branch: best-effort device initialization, then the gate.
MediaInit(q, fresh) ==
  IF ~q.ready /\ q.ctx # "running" THEN initializeAudio(q, fresh) ELSE q

ForwardUngated(q, c, fresh) == addChunk(q, c, fresh)

Forward(q, c, fresh) ==
  IF canPlayAudioRef THEN addChunk(q, c, fresh) ELSE q

OnMedia(i, f, fresh) ==
  /\ Idle
  /\ Delivers(i)
  /\ canPlayAudioRef => Len(added) < MaxChunks
  /\ LET c == WithId(f, Len(added) + 1)
     IN /\ SetQ(Forward(MediaInit(Q, fresh), c, fresh))
        /\ added' = IF canPlayAudioRef THEN Append(added, c) ELSE added
  /\ Len(waiters') <= MaxWaiters
  /\ UNCHANGED codecVars
  /\ UNCHANGED recorderVars
  /\ lastStart' = NoStart
  /\ lastOp' = "media"
  /\ UNCHANGED lastClose
  /\ Silent
  /\ UNCHANGED <<connVars, callVars, playing, played, deviceVars>>

\* as OnStart, but a start frame received during a call keeps that call
OnStartKeepsCall(i, f, fresh) ==
  /\ Idle
  /\ Delivers(i)
  /\ activeCall' = IF activeCall.isActive THEN activeCall
                   ELSE [isActive |-> TRUE, callId |-> f.callId,
                         contactId |-> f.contactId,
                         contactName |-> IF f.contactName = "" THEN Null
                                                               ELSE f.contactName]
  /\ SetQ(initializeAudio(Q, fresh))
  /\ Len(waiters') <= MaxWaiters
  /\ canPlayAudioRef' = TRUE
  /\ UNCHANGED codecVars
  /\ UNCHANGED recorderVars
  /\ lastStart' = f
  /\ lastOp' = "start"
  /\ UNCHANGED lastClose
  /\ Silent
  /\ UNCHANGED <<connVars, playing, added, played, deviceVars>>

\* as OnStart, clearing the queue before the device is initialized
OnStartClearsQueue(i, f, fresh) ==
  /\ Idle
  /\ Delivers(i)
  /\ activeCall' = [isActive |-> TRUE, callId |-> f.callId,
                    contactId |-> f.contactId,
                    contactName |-> IF f.contactName = "" THEN Null
                                                          ELSE f.contactName]
  /\ SetQ(initializeAudio(clear(Q), fresh))
  /\ Len(waiters') <= MaxWaiters
  /\ canPlayAudioRef' = TRUE
  /\ UNCHANGED codecVars
  /\ UNCHANGED recorderVars
  /\ lastStart' = f
  /\ lastOp' = "start"
  /\ UNCHANGED lastClose
  /\ Silent
  /\ UNCHANGED <<connVars, playing, added, played, deviceVars>>

OnStart(i, f, fresh) ==
  /\ Idle
  /\ Delivers(i)
  /\ activeCall' = [isActive |-> TRUE, callId |-> f.callId,
                    contactId |-> f.contactId,
                    contactName |-> IF f.contactName = "" THEN Null
                                                          ELSE f.contactName]
  /\ SetQ(initializeAudio(Q, fresh))
  /\ Len(waiters') <= MaxWaiters
  /\ canPlayAudioRef' = TRUE
  /\ UNCHANGED codecVars
  /\ UNCHANGED recorderVars
  /\ lastStart' = f
  /\ lastOp' = "start"
  /\ UNCHANGED lastClose
  /\ Silent
  /\ UNCHANGED <<connVars, playing, added, played, deviceVars>>

\* as OnStop, without the call of clear()
OnStopKeepsQueue(i) ==
  /\ Idle
  /\ Delivers(i)
  /\ activeCall' = InactiveCall
  /\ SetQ(Q)
  /\ canPlayAudioRef' = FALSE
  /\ UNCHANGED codecVars
  /\ UNCHANGED recorderVars
  /\ lastStart' = NoStart
  /\ lastOp' = "stop"
  /\ UNCHANGED lastClose
  /\ Silent
  /\ UNCHANGED <<connVars, playing, added, played, deviceVars>>

OnStop(i) ==
  /\ Idle
  /\ Delivers(i)
  /\ activeCall' = InactiveCall
  /\ SetQ(clear(Q))
  /\ canPlayAudioRef' = FALSE
  /\ UNCHANGED codecVars
  /\ UNCHANGED recorderVars
  /\ lastStart' = NoStart
  /\ lastOp' = "stop"
  /\ UNCHANGED lastClose
  /\ Silent
  /\ UNCHANGED <<connVars, playing, added, played, deviceVars>>

\* What else a socket delivers: data that is not a string, a string that is
\* not JSON, and JSON with another event kind.
OtherFrames ==
  { [isString |-> FALSE, json |-> FALSE, event |-> Null],
    [isString |-> TRUE,  json |-> FALSE, event |-> Null],
    [isString |-> TRUE,  json |-> TRUE,  event |-> "handle_communications"],
    [isString |-> TRUE,  json |-> TRUE,  event |-> "ping"],
    [isString |-> TRUE,  json |-> TRUE,  event |-> "dtmf"] }

\* the branch of onmessage a frame takes
Dispatch(raw) ==
  IF ~raw.isString THEN "skip"
  ELSE IF ~raw.json THEN "skip"
  ELSE IF raw.event \in {"media", "start", "stop"} THEN raw.event
  ELSE IF raw.event \in {"handle_communications", "ping"} THEN "log"
  ELSE "unknown"

\* as OnOtherFrame, but a frame that cannot be dispatched ends the session
OnOtherFrameFatal(i, raw) ==
  /\ Idle
  /\ Delivers(i)
  /\ Dispatch(raw) \in {"skip", "log", "unknown"}
  /\ status' = IF Dispatch(raw) = "log" THEN status ELSE "error"
  /\ canPlayAudioRef' = (canPlayAudioRef /\ Dispatch(raw) = "log")
  /\ UNCHANGED codecVars
  /\ UNCHANGED recorderVars
  /\ lastStart' = NoStart
  /\ lastOp' = "frame"
  /\ UNCHANGED lastClose
  /\ Silent
  /\ UNCHANGED <<error, socketRef, sockets, reconnectTimeoutRef, reconnectTimer,
                 reconnectAttemptsRef, isReconnectingRef, heartbeatIntervalRef,
                 heartbeats, sinceAttempt, connectionInProgressRef, closeDue,
                 activeCall, queueVars, deviceVars>>

\* onmessage for every frame that is not a media, start or stop frame: the
\* early returns and the two logging branches.
OnOtherFrame(i, raw) ==
  /\ Idle
  /\ Delivers(i)
  /\ Dispatch(raw) \in {"skip", "log", "unknown"}
  /\ UNCHANGED codecVars
  /\ UNCHANGED recorderVars
  /\ lastStart' = NoStart
  /\ lastOp' = "frame"
  /\ UNCHANGED lastClose
  /\ Silent
  /\ UNCHANGED <<connVars, callVars, queueVars, deviceVars>>

\* ------------------------------------------------------- the output device
\* initAudioContext, the document listener for click / touchstart / keydown.
GestureHandler(q, fresh) ==
  IF q.ctx = Null
    THEN IF fresh = "throw" THEN q
         ELSE playPendingChunks([q EXCEPT !.ctx = fresh, !.ready = TRUE])
    ELSE IF q.ctx = "suspended" THEN Resume(q, "gesture") ELSE q

UserGesture(fresh) ==
  /\ Idle
  /\ allowed' = TRUE
  /\ IF listening
       THEN LET q == GestureHandler(Q, fresh)
            IN /\ SetQ(q)
               /\ listening' = ~(q.ready /\ q.ctx = "running")
       ELSE /\ SetQ(Q)
            /\ UNCHANGED listening
  /\ Len(waiters') <= MaxWaiters
  /\ UNCHANGED codecVars
  /\ UNCHANGED recorderVars
  /\ lastStart' = NoStart
  /\ lastOp' = "gesture"
  /\ UNCHANGED lastClose
  /\ Silent
  /\ UNCHANGED <<connVars, callVars, playing, added, played, ppcTimers>>

\* The device starts running: every outstanding resume() promise settles and
\* its callback is queued, in the order of the resume() calls.
AsCallbacks(ws) == [n \in 1..Len(ws) |-> [k |-> "cb", cb |-> ws[n]]]

DeviceRuns ==
  /\ Idle
  /\ audioContext = "suspended"
  /\ allowed
  /\ audioContext' = "running"
  /\ micro' = AsCallbacks(waiters)
  /\ waiters' = <<>>
  /\ UNCHANGED codecVars
  /\ UNCHANGED recorderVars
  /\ lastStart' = NoStart
  /\ lastOp' = "deviceRuns"
  /\ UNCHANGED lastClose
  /\ Silent
  /\ UNCHANGED <<connVars, callVars, clientChunks, vendorChunks,
                 isAudioContextReady, pendingChunks, isClientPlaying,
                 isVendorPlaying, currentClientStreamId, currentVendorStreamId,
                 playing, added, played, deviceVars>>

\* The next continuation runs: a resume callback, or a playback unit that
\* decodes its payload and starts its source node.
RunMicrotask ==
  /\ micro # <<>>
  /\ LET m == Head(micro)
         q == [Q EXCEPT !.micro = Tail(micro)]
     IN IF m.k = "cb"
          THEN /\ SetQ(ResumeCallback(q, m.cb))
               /\ UNCHANGED <<played, playing>>
          ELSE IF m.c.bad
            THEN /\ SetQ(UnitFailed(q, m.c))
                 /\ UNCHANGED <<played, playing>>
            ELSE /\ SetQ(q)
                 /\ played' = Append(played, m.c.id)
                 /\ playing' = playing \cup {[id |-> m.c.id, vendor |-> m.c.vendor]}
  /\ UNCHANGED codecVars
  /\ UNCHANGED recorderVars
  /\ lastStart' = NoStart
  /\ lastOp' = "microtask"
  /\ UNCHANGED lastClose
  /\ Silent
  /\ UNCHANGED <<connVars, callVars, added, deviceVars>>

\* source.onended of a started playback unit.
OnEnded(u) ==
  /\ Idle
  /\ u \in playing
  /\ playing' = playing \ {u}
  /\ IF u.vendor THEN /\ isVendorPlaying' = FALSE
                      /\ UNCHANGED isClientPlaying
                 ELSE /\ isClientPlaying' = FALSE
                      /\ UNCHANGED isVendorPlaying
  /\ UNCHANGED codecVars
  /\ UNCHANGED recorderVars
  /\ lastStart' = NoStart
  /\ lastOp' = "ended"
  /\ UNCHANGED lastClose
  /\ Silent
  /\ UNCHANGED <<connVars, callVars, clientChunks, vendorChunks, audioContext,
                 isAudioContextReady, pendingChunks, currentClientStreamId,
                 currentVendorStreamId, waiters, micro, added, played, deviceVars>>

\* The hook's initializeAudio: AudioQueue.initializeAudio, and on success a
\* timer that calls playPendingChunks 100 ms later.
HookInitializeAudio(fresh) ==
  /\ Idle
  /\ SetQ(initializeAudio(Q, fresh))
  /\ Len(waiters') <= MaxWaiters
  /\ IF initializeAudioResult(Q, fresh)
       THEN /\ ppcTimers < MaxPpcTimers
            /\ ppcTimers' = ppcTimers + 1
       ELSE UNCHANGED ppcTimers
  /\ UNCHANGED codecVars
  /\ UNCHANGED recorderVars
  /\ lastStart' = NoStart
  /\ lastOp' = "initializeAudio"
  /\ UNCHANGED lastClose
  /\ Silent
  /\ UNCHANGED <<connVars, callVars, playing, added, played, listening, allowed>>

PpcTimerFires ==
  /\ Idle
  /\ ppcTimers > 0
  /\ ppcTimers' = ppcTimers - 1
  /\ SetQ(playPendingChunks(Q))
  /\ Len(waiters') <= MaxWaiters
  /\ UNCHANGED codecVars
  /\ UNCHANGED recorderVars
  /\ lastStart' = NoStart
  /\ lastOp' = "ppcTimer"
  /\ UNCHANGED lastClose
  /\ Silent
  /\ UNCHANGED <<connVars, callVars, playing, added, played, listening, allowed>>

\* ------------------------------------------------------------ specification
\* After construction: the hook's initial state; the AudioQueue constructor
\* keeps its probe context only if the platform let it run without a gesture.
InitSession ==
  /\ status = "disconnected" /\ error = Null
  /\ socketRef = 0 /\ sockets = <<>>
  /\ reconnectTimeoutRef = FALSE /\ reconnectTimer = NoTimer
  /\ reconnectAttemptsRef = 0 /\ isReconnectingRef = FALSE
  /\ heartbeatIntervalRef = FALSE /\ heartbeats = 0
  /\ sent = <<>> /\ sendAudioResult = NoSendAudio
  /\ lastStart = NoStart
  /\ sinceAttempt = CooldownTicks
  /\ connectionInProgressRef = FALSE
  /\ closeDue = 0
  /\ activeCall = InactiveCall /\ canPlayAudioRef = FALSE
  /\ clientChunks = EmptyBuffers /\ vendorChunks = EmptyBuffers
  /\ allowed \in BOOLEAN
  /\ audioContext = IF allowed THEN "running" ELSE Null
  /\ isAudioContextReady = allowed
  /\ pendingChunks = <<>>
  /\ isClientPlaying = FALSE /\ isVendorPlaying = FALSE
  /\ currentClientStreamId = Null /\ currentVendorStreamId = Null
  /\ listening = TRUE
  /\ waiters = <<>> /\ ppcTimers = 0 /\ micro = <<>> /\ playing = {}
  /\ added = <<>> /\ played = <<>>
  /\ lastOp = "init" /\ lastClose = NoClose
  /\ isStreaming = FALSE /\ mediaRecorderRef = 0 /\ recorders = <<>>
  /\ userMedia = 0 /\ captured = 0 /\ handlers = {} /\ wire = <<>>

Init ==
  /\ InitSession
  /\ pcmSample = NoSample /\ mulaw = NoByte /\ decoded = NoDecoded

\* The codec on its own: a sample the recorder hands to linearToMulaw, or a
\* byte of an inbound payload handed to the decoder.
InitCodec ==
  /\ InitSession
  /\ \/ pcmSample \in Samples /\ mulaw = NoByte
     \/ pcmSample = NoSample /\ mulaw \in Bytes
  /\ decoded = NoDecoded

Sock == DOMAIN sockets

\* a behaviour creates no more than n sockets
SocketsWithin(n) == Len(sockets') <= n

SocketOpen == socketRef # 0 /\ sockets[socketRef].st = "OPEN"

\* the steps of the microphone button and of the recorders
NextMicrophone ==
  \/ toggleMicrophone
  \/ getUserMediaResolves
  \/ getUserMediaRejects
  \/ \E r \in DOMAIN recorders, hasData \in BOOLEAN : ondataavailable(r, hasData)
  \/ \E h \in handlers : arrayBufferResolves(h)
  \/ \E h \in handlers : decodeAudioDataResolves(h)
  \/ \E h \in handlers : decodeAudioDataRejects(h)

Next ==
  \/ Connect /\ SocketsWithin(MaxSockets)
  \/ Disconnect
  \/ ReconnectTimerFires /\ SocketsWithin(MaxSockets)
  \/ \E i \in Sock : ConnectionTimeoutFires(i)
  \/ \E i \in Sock : OnOpen(i)
  \/ \E i \in Sock : OnError(i)
  \/ \E i \in Sock, code \in CloseCodes : OnClose(i, code)
  \/ handleCommunications /\ SocketsWithin(MaxSockets)
  \/ Tick
  \/ \E i \in Sock, f \in MediaFrames, fresh \in NewContextOutcomes(allowed) :
       OnMedia(i, f, fresh)
  \/ \E i \in Sock, f \in StartFrames, fresh \in NewContextOutcomes(allowed) :
       OnStart(i, f, fresh)
  \/ \E i \in Sock : OnStop(i)
  \/ \E i \in Sock, raw \in OtherFrames : OnOtherFrame(i, raw)
  \/ \E fresh \in NewContextOutcomes(TRUE) : UserGesture(fresh)
  \/ DeviceRuns
  \/ RunMicrotask
  \/ \E u \in playing : OnEnded(u)
  \/ \E fresh \in NewContextOutcomes(allowed) : HookInitializeAudio(fresh)
  \/ PpcTimerFires
  \/ \E p \in Payloads : SendAudio(p)
  \/ \E name \in MarkNames : SendMark(name)
  \/ Encode
  \/ Decode
  \/ sendHeartbeat
  \/ NextMicrophone

Spec == Init /\ [][Next]_vars

NextCodec ==
  \/ Encode
  \/ Decode

SpecCodec == InitCodec /\ [][NextCodec]_vars

\* The transport session alone.  No transport action reads the playback queue
\* or the call record, so leaving the frames and the device out removes no
\* behaviour of the connection state.
NextConn ==
  \/ Connect /\ SocketsWithin(MaxSockets)
  \/ Disconnect
  \/ ReconnectTimerFires /\ SocketsWithin(MaxSockets)
  \/ \E i \in Sock : ConnectionTimeoutFires(i)
  \/ \E i \in Sock : OnOpen(i)
  \/ \E i \in Sock : OnError(i)
  \/ \E i \in Sock, code \in CloseCodes : OnClose(i, code)
  \/ handleCommunications /\ SocketsWithin(MaxSockets)
  \/ Tick

SpecConn == Init /\ [][NextConn]_vars

\* The open handlers followed further: the page connects, disconnects and
\* calls handleCommunications, sockets open and close, time passes.  Each
\* behaviour is one of the transport session in which no socket fails and
\* every socket opens before time moves on, so that no timer becomes due.
NextHandover ==
  \/ Connect /\ SocketsWithin(MaxHandoverSockets)
  \/ Disconnect
  \/ \E i \in Sock : OnOpen(i)
  \/ \E i \in Sock : OnClose(i, NormalClosure)
  \/ handleCommunications /\ SocketsWithin(MaxHandoverSockets)
  \/ Tick /\ \A i \in Sock : sockets[i].timeout = NoTimer

SpecHandover == Init /\ [][NextHandover]_vars

\* The outbound audio: the page sends recorded chunks while the session
\* connects, opens, closes and is disconnected.
NextAudioOut ==
  \/ Connect /\ SocketsWithin(MaxSockets)
  \/ Disconnect
  \/ ReconnectTimerFires /\ SocketsWithin(MaxSockets)
  \/ \E i \in Sock : OnOpen(i)
  \/ \E i \in Sock : OnError(i)
  \/ \E i \in Sock, code \in CloseCodes : OnClose(i, code)
  \/ Tick /\ \A i \in Sock : sockets[i].timeout = NoTimer
  \/ \E p \in Payloads : SendAudio(p)

SpecAudioOut == Init /\ [][NextAudioOut]_vars

\* The control messages: the page calls handleCommunications and sends its
\* marks in any state, calls start.  The output device plays no part in what
\* is sent; it is taken as unavailable.
NextControl ==
  \/ Connect /\ SocketsWithin(MaxSockets)
  \/ Disconnect
  \/ ReconnectTimerFires /\ SocketsWithin(MaxSockets)
  \/ \E i \in Sock : OnOpen(i)
  \/ \E i \in Sock, code \in CloseCodes : OnClose(i, code)
  \/ handleCommunications /\ SocketsWithin(MaxSockets)
  \/ Tick /\ \A i \in Sock : sockets[i].timeout = NoTimer
  \/ \E i \in Sock, f \in StartFrames : OnStart(i, f, "throw")
  \/ \E name \in MarkNames : SendMark(name)

SpecControl == Init /\ [][NextControl]_vars

\* The end of a session: the socket closes or the page disconnects during a
\* call whose chunks wait for a device that is not available, and the
\* reconnect timer runs.
NextTeardown ==
  \/ Connect /\ SocketsWithin(MaxSockets)
  \/ Disconnect
  \/ ReconnectTimerFires /\ SocketsWithin(MaxSockets)
  \/ \E i \in Sock : OnOpen(i)
  \/ \E i \in Sock, code \in CloseCodes : OnClose(i, code)
  \/ Tick /\ \A i \in Sock : sockets[i].timeout = NoTimer
  \/ \E i \in Sock, f \in StartFrames : OnStart(i, f, "throw")
  \/ \E i \in Sock, f \in CallFrames :
       OnMedia(i, f, "throw") /\ Len(added') <= MaxTeardownChunks

SpecTeardown == Init /\ [][NextTeardown]_vars

\* The call and the playback queue over one connection: the session connects,
\* frames arrive, the device and the user act, the page disconnects.  The
\* frames and the queue read nothing of the transport but whether the socket
\* delivers, so the reconnect machinery is left to SpecConn.
NextCall ==
  \/ Connect /\ SocketsWithin(MaxSockets)
  \/ Disconnect
  \/ \E i \in Sock : OnOpen(i)
  \/ \E i \in Sock, code \in CloseCodes : OnClose(i, code)
  \/ \E i \in Sock, f \in CallFrames, fresh \in NewContextOutcomes(allowed) :
       OnMedia(i, f, fresh)
  \/ \E i \in Sock, f \in StartFrames, fresh \in NewContextOutcomes(allowed) :
       OnStart(i, f, fresh)
  \/ \E i \in Sock : OnStop(i)
  \/ \E i \in Sock, raw \in OtherFrames : OnOtherFrame(i, raw)
  \/ \E fresh \in NewContextOutcomes(TRUE) : UserGesture(fresh)
  \/ DeviceRuns
  \/ RunMicrotask
  \/ \E u \in playing : OnEnded(u)
  \/ \E fresh \in NewContextOutcomes(allowed) : HookInitializeAudio(fresh)
  \/ PpcTimerFires

SpecCall == Init /\ [][NextCall]_vars

\* The transport of SpecTeardown with the error event and the stop frame: every
\* kind of step the hook takes while a call starts, runs and ends.
NextGate ==
  \/ NextTeardown
  \/ \E i \in Sock : OnError(i)
  \/ \E i \in Sock : OnStop(i)

SpecGate == Init /\ [][NextGate]_vars

\* The transport session with the ticks of the heartbeat interval.
NextHeartbeat ==
  \/ NextConn
  \/ sendHeartbeat

SpecHeartbeat == Init /\ [][NextHeartbeat]_vars

\* The microphone on one connection: the page connects, the socket opens, a
\* call starts (device unavailable), and the button is used.
NextRecorder ==
  \/ Connect /\ SocketsWithin(1)
  \/ \E i \in Sock : OnOpen(i)
  \/ \E i \in Sock, f \in StartFrames : OnStart(i, f, "throw")
  \/ NextMicrophone

SpecRecorder == Init /\ [][NextRecorder]_vars

\* The playback queue alone: the public methods of AudioQueue called as the
\* hook calls them, with the device and the user acting in between.
AddChunk(f, fresh) ==
  /\ Idle
  /\ Len(added) < MaxChunks
  /\ LET c == WithId(f, Len(added) + 1)
     IN /\ SetQ(addChunk(Q, c, fresh))
        /\ added' = Append(added, c)
  /\ Len(waiters') <= MaxWaiters
  /\ UNCHANGED codecVars
  /\ UNCHANGED recorderVars
  /\ lastStart' = NoStart
  /\ lastOp' = "addChunk"
  /\ UNCHANGED lastClose
  /\ Silent
  /\ UNCHANGED <<connVars, callVars, playing, played, deviceVars>>

Clear ==
  /\ Idle
  /\ SetQ(clear(Q))
  /\ UNCHANGED codecVars
  /\ UNCHANGED recorderVars
  /\ lastStart' = NoStart
  /\ lastOp' = "clear"
  /\ UNCHANGED lastClose
  /\ Silent
  /\ UNCHANGED <<connVars, callVars, playing, added, played, deviceVars>>

NextQueue ==
  \/ \E f \in MediaFrames, fresh \in NewContextOutcomes(allowed) : AddChunk(f, fresh)
  \/ Clear
  \/ \E fresh \in NewContextOutcomes(TRUE) : UserGesture(fresh)
  \/ DeviceRuns
  \/ RunMicrotask
  \/ \E u \in playing : OnEnded(u)
  \/ \E fresh \in NewContextOutcomes(allowed) : HookInitializeAudio(fresh)
  \/ PpcTimerFires

SpecQueue == Init /\ [][NextQueue]_vars

\* ------------------------------------------------------------------ claims
QueueEmpty ==
  /\ pendingChunks = <<>>
  /\ clientChunks = EmptyBuffers
  /\ vendorChunks = EmptyBuffers

\* C1: gate enforcement.  While canPlayAudioRef is false the pending FIFO and
\* the stream buffers of both tracks hold no chunk, and a media frame processed
\* while it is false hands nothing to addChunk: nothing is stored, queued or
\* started for it.
C1_GateEnforcement ==
  /\ [](~canPlayAudioRef => QueueEmpty)
  /\ [][(lastOp' = "media" /\ ~canPlayAudioRef) =>
          /\ added' = added
          /\ played' = played
          /\ micro' = <<>>
          /\ QueueEmpty']_vars

\* Scenario C: start, three media frames (played), stop, one more media frame.
C1_Witness ==
  /\ lastOp = "media"
  /\ ~canPlayAudioRef
  /\ Len(added) = 3
  /\ Len(played) = 3

NoLiveSocket == \A i \in Sock : ~Live(i)

\* C2: automatic reconnect.  When the reconnect timer armed by an abnormal
\* close fires, its connect() goes through: a new socket is created and status
\* becomes 'connecting' (or the construction of the socket throws).
C2_AutomaticReconnect ==
  [][lastOp' = "reconnectTimer" =>
       \/ Len(sockets') = Len(sockets) + 1 /\ status' = "connecting"
       \/ status' = "error" /\ error' = "Failed to connect"]_vars

\* C3: manual reconnect is always possible.  Whenever no socket of the session
\* is open or connecting and the cooldown has elapsed, no guard of connect()
\* turns a call away.
C3_ManualReconnect ==
  (Idle /\ NoLiveSocket /\ sinceAttempt >= CooldownTicks) => ~ConnectBlocked

\* C4: a reentrant connect() is a no-op.  A connect() call made while socketRef
\* holds an OPEN or CONNECTING socket, while an attempt is in progress, or
\* within the cooldown of the last accepted attempt creates no socket and
\* changes nothing.
C4_ReentrantConnectNoop ==
  [][(/\ lastOp' = "connect"
      /\ \/ socketRef # 0 /\ Live(socketRef)
         \/ connectionInProgressRef
         \/ sinceAttempt < CooldownTicks)
     => (sent' = <<>> /\ UNCHANGED <<connVars, callVars, queueVars, deviceVars>>)]_vars

\* connect() was called on the open connection and left it as it was.
C4_Witness ==
  /\ lastOp = "connect"
  /\ socketRef = 1 /\ sockets[1].st = "OPEN"
  /\ Len(sockets) = 1
  /\ status = "connected"

\* C5: at most one socket of the session is CONNECTING or OPEN, and it is the
\* one socketRef holds.
C5_SingleLiveSocket == \A i \in Sock : Live(i) => socketRef = i

\* C10: backoff.  The delay a close arms is min(1000 * 2^(n-1), 30000) ms for
\* the incremented counter n; over n = 1 .. ceiling each delay is the double of
\* the one before, larger than it, and within the cap.
C10_Backoff ==
  /\ (lastOp = "close" /\ isReconnectingRef) =>
       LET n == reconnectAttemptsRef
       IN /\ n \in 1..maxReconnectAttempts
          /\ reconnectTimer * 1000 = Min(1000 * 2^(n - 1), 30000)
  /\ \A n \in 1..maxReconnectAttempts :
       /\ backoffTime(n) = Min(1000 * 2^(n - 1), 30000)
       /\ backoffTime(n) <= 30000
       /\ n > 1 => /\ backoffTime(n) = 2 * backoffTime(n - 1)
                   /\ backoffTime(n) > backoffTime(n - 1)

\* A second abnormal close in a row armed the doubled delay.
C10_Witness ==
  /\ lastOp = "close"
  /\ isReconnectingRef
  /\ reconnectAttemptsRef = 2
  /\ reconnectTimer = 2

SamePair(a, b) == a.sid = b.sid /\ a.vendor = b.vendor

\* C6: playback ordering.  Within one (streamId, track) pair playback is
\* started in the order in which addChunk received the chunks, whatever chunk
\* index the frames carried and however long a chunk waited in the pending FIFO.
C6_PlaybackOrder ==
  \A i, j \in 1..Len(played) :
    (i < j /\ SamePair(added[played[i]], added[played[j]]))
      => played[i] < played[j]

\* Three chunks of one pair waited in the pending FIFO and are being replayed:
\* the first two have started, the third is next.
C6_Witness ==
  /\ lastOp = "microtask"
  /\ played = <<1, 2>>
  /\ Len(micro) = 1 /\ micro[1].k = "unit" /\ micro[1].c.id = 3
  /\ SamePair(added[1], added[2]) /\ SamePair(added[2], added[3])
  /\ added[2].idx = 0

PlayedIds == {played[k] : k \in 1..Len(played)}
PendingIds == {pendingChunks[k].id : k \in 1..Len(pendingChunks)}
UnitAt == {k \in 1..Len(micro) : micro[k].k = "unit"}
UnitIds == {micro[k].c.id : k \in UnitAt}

\* C7: exactly once.  No chunk has its playback started twice, none is queued
\* for a start twice, and a chunk that was taken from the pending FIFO to be
\* played is no longer in it.
C7_ExactlyOnce ==
  /\ Cardinality(PlayedIds) = Len(played)
  /\ Cardinality(UnitIds) = Cardinality(UnitAt)
  /\ Cardinality(PendingIds) = Len(pendingChunks)
  /\ PlayedIds \cap UnitIds = {}
  /\ PendingIds \cap (PlayedIds \cup UnitIds) = {}

\* A drain took two chunks out of the pending FIFO; both are about to start.
C7_Witness ==
  /\ lastOp = "microtask"
  /\ Len(micro) = 2 /\ UnitAt = {1, 2}
  /\ pendingChunks = <<>>
  /\ played = <<>>

\* C8: initializeAudio is idempotent while running.  With the device running
\* and marked ready, a call of initializeAudio, or the delayed
\* playPendingChunks it schedules, changes nothing of the queue or the device
\* and starts no playback.
C8_InitializeIdempotent ==
  [][(/\ lastOp' \in {"initializeAudio", "ppcTimer"}
      /\ isAudioContextReady /\ audioContext = "running")
     => UNCHANGED queueVars]_vars

\* Chunks were played, the gesture listeners saw the device running and ready,
\* and initializeAudio was called after that.
C8_Witness ==
  /\ lastOp = "initializeAudio"
  /\ ~listening
  /\ isAudioContextReady /\ audioContext = "running"
  /\ Len(played) >= 2
  /\ pendingChunks = <<>>

\* C9: addChunk plays or enqueues, never both.  If the device is running after
\* the call's initialization attempt, a playback unit is started for the chunk
\* and the chunk is not in the pending FIFO; otherwise the chunk is appended to
\* the tail of the pending FIFO and no playback unit is started for it.
C9_PlayOrEnqueue ==
  [][lastOp' = "addChunk" /\ added' # added =>
       LET n == Len(added')
           units == {k \in 1..Len(micro') : micro'[k].k = "unit" /\ micro'[k].c.id = n}
           queued == {k \in 1..Len(pendingChunks') : pendingChunks'[k].id = n}
       IN IF audioContext' = "running"
            THEN Cardinality(units) = 1 /\ queued = {}
            ELSE /\ units = {}
                 /\ queued = {Len(pendingChunks')}
                 /\ Len(pendingChunks') = Len(pendingChunks) + 1]_vars

\* A chunk arrived while the device was suspended and went to the tail of the
\* pending FIFO, behind the one already waiting.
C9_Witness ==
  /\ lastOp = "addChunk"
  /\ audioContext = "suspended"
  /\ Len(pendingChunks) = 2 /\ pendingChunks[2].id = Len(added)
  /\ micro = <<>>

\* C11: scenario D.  A connect() that is accepted starts the attempt counter
\* at 0; an abnormal close that finds the counter at 0 arms the reconnect timer
\* with the base delay, 1000 ms; an abnormal close that follows it with no open
\* in between (the counter is 1 and the reconnecting flag still set) arms it
\* with twice the base delay, 2000 ms.
C11_ScenarioD ==
  [][/\ (lastOp' = "connect" /\ Len(sockets') = Len(sockets) + 1)
          => (reconnectAttemptsRef' = 0 /\ ~isReconnectingRef')
     /\ (lastOp' = "close" /\ isReconnectingRef')
          => /\ reconnectTimeoutRef'
             /\ reconnectAttemptsRef' = reconnectAttemptsRef + 1
             /\ reconnectAttemptsRef = 0
                  => reconnectTimer' * BaseBackoffMs = 1000
             /\ (reconnectAttemptsRef = 1 /\ isReconnectingRef)
                  => reconnectTimer' * BaseBackoffMs = 2000]_vars

\* Two sockets of the session closed abnormally one after the other; the
\* second close armed 2000 ms.
C11_Witness ==
  /\ lastOp = "close"
  /\ Len(sockets) = 2
  /\ \A i \in Sock : sockets[i].st = "CLOSED" /\ sockets[i].kind = "connect"
  /\ ~sockets[2].wasOpen
  /\ reconnectAttemptsRef = 2 /\ isReconnectingRef
  /\ reconnectTimeoutRef /\ reconnectTimer * BaseBackoffMs = 2000

\* C12: successful connect.  When a socket created by connect() opens, status
\* becomes 'connected', the error is cleared, the attempt counter is 0, the
\* reconnecting and in-progress flags are cleared, and exactly one heartbeat
\* timer is armed.
C12_SuccessfulConnect ==
  [][\A i \in Sock :
       (/\ lastOp' = "open"
        /\ sockets[i].kind = "connect"
        /\ sockets[i].st = "CONNECTING" /\ sockets'[i].st = "OPEN")
       => /\ status' = "connected"
          /\ error' = Null
          /\ reconnectAttemptsRef' = 0
          /\ ~isReconnectingRef'
          /\ ~connectionInProgressRef'
          /\ heartbeatIntervalRef'
          /\ heartbeats' = 1]_vars

\* the latest close was a normal closure, or found the counter at the ceiling
FinalClose ==
  \/ lastClose.code = NormalClosure
  \/ lastClose.code # 0 /\ lastClose.attempts = maxReconnectAttempts

\* C13: no reconnect after a normal closure or an exhausted ceiling.  Such a
\* close arms no reconnect timer and leaves status 'disconnected' and the
\* reconnecting flag false, and from then on the session creates no socket of
\* its own until connect() is called by the page (a socket the page asks
\* for through handleCommunications is the matter of C15).
C13_NoReconnectAfterFinalClose ==
  [][/\ (lastOp' = "close" /\ FinalClose')
          => /\ reconnectTimer' = reconnectTimer
             /\ reconnectTimeoutRef' = reconnectTimeoutRef
             /\ status' = "disconnected"
             /\ ~isReconnectingRef'
     /\ (FinalClose /\ lastOp' \notin {"connect", "handleCommunications"})
          => Len(sockets') = Len(sockets)]_vars

\* C14: sendAudio fails when not connected.  A sendAudio(chunk) called while
\* the socket of the session is not open rejects, transmits nothing and
\* changes no connection state; called while it is open it sends exactly one
\* media frame with that payload on that socket and resolves.  No other task
\* sends a media frame, so a rejected chunk is not sent later.
C14_SendAudio ==
  [][/\ lastOp' = "sendAudio" =>
          /\ UNCHANGED <<connVars, callVars, queueVars, deviceVars>>
          /\ sendAudioResult'.payload \in Payloads
          /\ IF SocketOpen
               THEN /\ sendAudioResult'.promise = "resolved"
                    /\ sent' = <<[to |-> socketRef, ev |-> "media",
                                  data |-> sendAudioResult'.payload]>>
               ELSE /\ sendAudioResult'.promise = "rejected"
                    /\ sent' = <<>>
     /\ lastOp' # "sendAudio" =>
          \A k \in 1..Len(sent') : sent'[k].ev # "media"
    ]_vars

\* after a disconnect the chunk was rejected and nothing was sent
C14_Witness ==
  /\ lastOp = "sendAudio"
  /\ sendAudioResult = [payload |-> "chunkB", promise |-> "rejected"]
  /\ socketRef = 0 /\ Len(sockets) = 1 /\ sockets[1].wasOpen
  /\ sent = <<>>

\* the frame handleCommunications sends on socket i
CommunicationsFrame(i) == [to |-> i, ev |-> "handle_communications", data |-> Null]

\* C15 as stated: sendMark and handleCommunications, called while the socket
\* of the session is not open, send nothing, create no socket and change no
\* connection state.
C15_SameConnectednessPrecondition ==
  [][(lastOp' \in {"sendMark", "handleCommunications"} /\ ~SocketOpen)
       => (sent' = <<>> /\ UNCHANGED connVars)]_vars

\* C15: sendMark transmits its mark only if the socket of the session is open
\* at the call (and a call id is known); otherwise nothing is sent, then or
\* later, and nothing changes.  handleCommunications transmits at once only
\* if the socket is open.  Called while the socket is connecting it sends
\* nothing and defers one message to the opening of that socket; called while
\* the socket is closed, or absent with the status still 'connected', it
\* sends nothing and creates a new socket whose opening sends the message (or
\* records the error if the socket cannot be created); in every other state
\* it sends nothing and changes nothing.  A deferred message is sent only by
\* the open handler that carries it, on the socket the session holds then,
\* and only if that one is open.
C15_ControlSends ==
  [][/\ lastOp' = "sendMark" =>
          /\ UNCHANGED <<connVars, callVars, queueVars, deviceVars>>
          /\ IF SocketOpen /\ activeCall.callId # Null
               THEN \E name \in MarkNames :
                      sent' = <<[to |-> socketRef, ev |-> "mark",
                                 data |-> [streamSid |-> activeCall.callId,
                                           name |-> name]]>>
               ELSE sent' = <<>>
     /\ lastOp' # "sendMark" => \A k \in 1..Len(sent') : sent'[k].ev # "mark"
     /\ lastOp' = "handleCommunications" =>
          /\ UNCHANGED <<callVars, queueVars, deviceVars>>
          /\ IF SocketOpen
               THEN sent' = <<CommunicationsFrame(socketRef)>> /\ UNCHANGED connVars
             ELSE IF socketRef # 0 /\ sockets[socketRef].st = "CONNECTING"
               THEN /\ sent' = <<>>
                    /\ sockets' = [sockets EXCEPT ![socketRef].onopen.wraps = @ + 1]
                    /\ UNCHANGED <<socketRef, status, error, reconnectTimer,
                                   reconnectTimeoutRef, sinceAttempt,
                                   reconnectAttemptsRef, isReconnectingRef,
                                   heartbeatIntervalRef, heartbeats,
                                   connectionInProgressRef, closeDue>>
             ELSE IF \/ socketRef # 0 /\ sockets[socketRef].st = "CLOSED"
                     \/ socketRef = 0 /\ status = "connected"
               THEN /\ sent' = <<>>
                    /\ \/ /\ Len(sockets') = Len(sockets) + 1
                          /\ socketRef' = Len(sockets')
                          /\ sockets'[socketRef'].st = "CONNECTING"
                          /\ sockets'[socketRef'].onopen.kind = "hc"
                          /\ \A i \in Sock : sockets'[i] = sockets[i]
                          /\ UNCHANGED <<status, error>>
                       \/ /\ sockets' = sockets /\ socketRef' = 0
                          /\ status' = "error"
                          /\ error' = "Failed to reconnect to WebSocket"
                    /\ UNCHANGED <<reconnectTimer, reconnectTimeoutRef,
                                   sinceAttempt, reconnectAttemptsRef,
                                   isReconnectingRef, heartbeatIntervalRef,
                                   heartbeats, connectionInProgressRef, closeDue>>
               ELSE sent' = <<>> /\ UNCHANGED connVars
     /\ (lastOp' # "handleCommunications" /\ sent' # <<>>
           /\ sent'[1].ev = "handle_communications") =>
          /\ lastOp' = "open"
          /\ socketRef' # 0 /\ sockets'[socketRef'].st = "OPEN"
          /\ \A k \in 1..Len(sent') : sent'[k] = CommunicationsFrame(socketRef')
          /\ \E i \in Sock :
                /\ sockets[i].st = "CONNECTING" /\ sockets'[i].st = "OPEN"
                /\ Len(sent') = (IF sockets[i].onopen.kind = "hc" THEN 1 ELSE 0)
                                 + sockets[i].onopen.wraps
    ]_vars

\* handleCommunications was called while the session's socket was closed;
\* the socket it created has opened and has sent the message
C15_Witness ==
  /\ lastOp = "open"
  /\ socketRef # 0
  /\ sockets[socketRef].kind = "hc" /\ sockets[socketRef].st = "OPEN"
  /\ sent = <<CommunicationsFrame(socketRef)>>

\* C16: call start.  After a start frame is processed, in a call or out of
\* one, the call record is active and carries the callId, the contactId and
\* the contactName (null when empty) of that frame, whatever it held before;
\* canPlayAudioRef is true; and initializeAudio has been called on the queue:
\* unless no context could be constructed, the queue has a context, is marked
\* ready, and has asked a context that is not running to resume.
C16_CallStart ==
  [][lastOp' = "start" =>
       /\ lastStart' \in StartFrames
       /\ activeCall' = [isActive |-> TRUE, callId |-> lastStart'.callId,
                         contactId |-> lastStart'.contactId,
                         contactName |-> IF lastStart'.contactName = ""
                                           THEN Null ELSE lastStart'.contactName]
       /\ canPlayAudioRef'
       /\ \E fresh \in NewContextOutcomes(allowed) :
             LET q == initializeAudio(Q, fresh)
             IN /\ audioContext' = q.ctx /\ isAudioContextReady' = q.ready
                /\ waiters' = q.waiters /\ micro' = q.micro
                /\ pendingChunks' = q.pending
       /\ audioContext' # Null => isAudioContextReady'
       /\ (audioContext # "running" /\ audioContext' = "suspended") =>
             (\E k \in Len(waiters) + 1 .. Len(waiters') : waiters'[k] = "init")
    ]_vars

\* a start frame for call2 arrived while a call was in progress with a chunk
\* waiting for the device
C16_Witness ==
  /\ lastOp = "start"
  /\ activeCall = [isActive |-> TRUE, callId |-> "call2",
                   contactId |-> "contact2", contactName |-> "Ann"]
  /\ canPlayAudioRef
  /\ pendingChunks # <<>>

\* C17: call stop.  After a stop frame is processed, in a call or out of one,
\* the call record is inactive with callId, contactId and contactName null,
\* canPlayAudioRef is false, and the queue holds no pending chunk and no
\* buffered chunk of either track.
C17_CallStop ==
  [][lastOp' = "stop" =>
       /\ activeCall' = [isActive |-> FALSE, callId |-> Null,
                         contactId |-> Null, contactName |-> Null]
       /\ ~canPlayAudioRef'
       /\ pendingChunks' = <<>>
       /\ \A sid \in StreamIds :
             clientChunks'[sid] = <<>> /\ vendorChunks'[sid] = <<>>
    ]_vars

\* the stop frame arrived while two chunks of the call waited for the device
C17_Witness ==
  /\ lastOp = "stop"
  /\ Len(added) = 2 /\ played = <<>> /\ playing = {}
  /\ audioContext # "running"
  /\ pendingChunks = <<>>

\* C18: track independence.  An addChunk called while the device is running
\* starts the playback unit of its chunk in the same step, whatever units of
\* either track are in flight and whatever the playing flags say: the chunk
\* does not go to the pending FIFO, and it is the only unit started when the
\* queue was marked ready.  The unit then starts its source at its
\* continuation without waiting for any unit to end.
C18_TrackIndependence ==
  [][/\ (lastOp' = "addChunk" /\ audioContext = "running") =>
          LET c == added'[Len(added')]
              unit == [k |-> "unit",
                       c |-> [id |-> c.id, sid |-> c.sid,
                              vendor |-> c.vendor, bad |-> c.bad]]
          IN /\ added' = Append(added, c)
             /\ micro' # <<>> /\ micro'[Len(micro')] = unit
             /\ isAudioContextReady => micro' = <<unit>>
             /\ \A k \in 1..Len(pendingChunks') : pendingChunks'[k].id # c.id
             /\ playing' = playing
     /\ (lastOp' = "microtask" /\ Head(micro).k = "unit" /\ ~Head(micro).c.bad) =>
          /\ played' = Append(played, Head(micro).c.id)
          /\ playing' = playing \cup {[id |-> Head(micro).c.id,
                                       vendor |-> Head(micro).c.vendor]}
    ]_vars

\* a client chunk was added while a vendor unit was playing: its unit is
\* started, the vendor unit still plays
C18_Witness ==
  /\ lastOp = "addChunk"
  /\ Len(added) = 2 /\ added[1].vendor /\ ~added[2].vendor
  /\ playing = {[id |-> 1, vendor |-> TRUE]}
  /\ isVendorPlaying
  /\ Len(micro) = 1 /\ micro[1].k = "unit" /\ micro[1].c.id = 2
  /\ pendingChunks = <<>>

\* C19: clear() cancels only queued work.  After clear() the pending FIFO and
\* the stream buffers of both tracks are empty; the playback units already
\* started are the same, none was stopped and none started, and each of them
\* can still end; the device context, its readiness flag and the resume
\* requests outstanding on it are unchanged.
C19_ClearOnlyQueued ==
  /\ [][lastOp' = "clear" =>
          /\ pendingChunks' = <<>>
          /\ clientChunks' = EmptyBuffers /\ vendorChunks' = EmptyBuffers
          /\ playing' = playing /\ played' = played /\ micro' = micro
          /\ audioContext' = audioContext
          /\ isAudioContextReady' = isAudioContextReady
          /\ waiters' = waiters]_vars
  /\ [](lastOp = "clear" => \A u \in playing : ENABLED OnEnded(u))

\* clear() was called while the units of the two chunks added were playing
C19_Witness ==
  /\ lastOp = "clear"
  /\ Len(added) = 2 /\ played = <<1, 2>>
  /\ Cardinality(playing) = 2
  /\ ~isClientPlaying /\ ~isVendorPlaying
  /\ audioContext = "running" /\ isAudioContextReady

\* C20: device failure is non-fatal and retried.  A chunk in the pending FIFO
\* stays there until clear() or until its playback unit is started.  An
\* addChunk called while the device is not running and ready, and a gesture
\* seen by the queue's listeners, attempt the initialization again: without a
\* context one is constructed (and marked ready) unless the construction
\* fails, and a context that is not running is asked to resume.  When a step
\* other than clear() empties the pending FIFO, the units of all its chunks
\* are started in FIFO order; and whenever the device runs and no
\* continuation is outstanding, the pending FIFO is empty.
C20_DeviceRetry ==
  /\ [][/\ \A id \in PendingIds :
             id \in PendingIds' \/ id \in UnitIds' \/ lastOp' = "clear"
        /\ (lastOp' = "addChunk" /\ ~(isAudioContextReady /\ audioContext = "running")) =>
             /\ audioContext' # Null => isAudioContextReady'
             /\ audioContext = Null =>
                   audioContext' \in (NewContextOutcomes(allowed) \ {"throw"}) \cup {Null}
             /\ audioContext = "suspended" =>
                   \E k \in Len(waiters) + 1 .. Len(waiters') : waiters'[k] = "init"
        /\ (lastOp' = "gesture" /\ listening) =>
             /\ audioContext = Null =>
                   \/ audioContext' = Null
                   \/ audioContext' \in {"running", "suspended"} /\ isAudioContextReady'
             /\ audioContext = "suspended" =>
                   \E k \in Len(waiters) + 1 .. Len(waiters') : waiters'[k] = "gesture"
        /\ (pendingChunks # <<>> /\ pendingChunks' = <<>> /\ lastOp' # "clear") =>
             /\ audioContext' = "running"
             /\ \E j \in 0..Len(micro') :
                   \A k \in 1..Len(pendingChunks) :
                     /\ j + k <= Len(micro')
                     /\ micro'[j + k] = [k |-> "unit", c |-> pendingChunks[k]]
       ]_vars
  /\ []((micro = <<>> /\ audioContext = "running") => pendingChunks = <<>>)

\* two chunks were added while no context could be constructed; the gesture
\* constructed one that runs and started both
C20_Witness ==
  /\ lastOp = "gesture"
  /\ audioContext = "running" /\ isAudioContextReady
  /\ Len(added) = 2 /\ played = <<>>
  /\ pendingChunks = <<>>
  /\ Len(micro) = 2 /\ micro[1].k = "unit" /\ micro[1].c.id = 1
  /\ micro[2].k = "unit" /\ micro[2].c.id = 2

\* the chunks added whose payload does not decode
FailedIds == {added[k].id : k \in {n \in 1..Len(added) : added[n].bad}}

\* C21: skip and continue.  When the playback unit of a chunk fails at its
\* decode or its start, that chunk alone is not played: the context, its
\* readiness flag, the resume requests, the pending FIFO, the stream buffers,
\* the units playing and the connection are unchanged, and the units queued
\* behind it stay queued.  A unit whose chunk decodes is started whatever
\* failed before it, and an addChunk on the running device still starts one.
C21_SkipAndContinue ==
  /\ [][/\ (lastOp' = "microtask" /\ Head(micro).k = "unit" /\ Head(micro).c.bad) =>
             /\ micro' = Tail(micro)
             /\ played' = played /\ playing' = playing
             /\ UNCHANGED <<audioContext, isAudioContextReady, waiters,
                            pendingChunks, clientChunks, vendorChunks,
                            currentClientStreamId, currentVendorStreamId>>
             /\ UNCHANGED <<connVars, callVars>>
        /\ (lastOp' = "microtask" /\ Head(micro).k = "unit" /\ ~Head(micro).c.bad
              /\ FailedIds # {}) =>
             played' = Append(played, Head(micro).c.id)
        /\ (lastOp' = "addChunk" /\ FailedIds # {} /\ audioContext = "running"
              /\ isAudioContextReady) =>
             (Len(micro') = 1 /\ micro'[1].c.id = Len(added'))
       ]_vars
  /\ [](PlayedIds \cap FailedIds = {})

\* the first of two chunks failed to decode; the unit of the second
\* was started after it
C21_Witness ==
  /\ lastOp = "microtask"
  /\ Len(added) = 2 /\ added[1].bad /\ ~added[2].bad
  /\ played = <<2>>
  /\ playing = {[id |-> 2, vendor |-> added[2].vendor]}
  /\ audioContext = "running" /\ pendingChunks = <<>>

\* C22: malformed and unrecognized frames are discarded.  Handling a frame
\* that is not a string, is not JSON, or has an event kind other than media,
\* start and stop changes nothing: not the status, the sockets, the reconnect
\* state, the call record, canPlayAudioRef or the queue.  The socket delivers
\* on: the frames that follow are still handled.
C22_FramesDiscarded ==
  /\ [][lastOp' = "frame" =>
          UNCHANGED <<connVars, callVars, queueVars, deviceVars>>]_vars
  /\ [](lastOp = "frame" =>
          \E i \in Sock : Delivers(i) /\ ENABLED OnStop(i)
                           /\ \A raw \in OtherFrames : ENABLED OnOtherFrame(i, raw))

\* a frame was discarded during a call while a chunk of the call was playing
C22_Witness ==
  /\ lastOp = "frame"
  /\ status = "connected"
  /\ activeCall.isActive /\ canPlayAudioRef
  /\ Len(played) = 1 /\ Cardinality(playing) = 1

\* C23: error transition.  The error event of a socket, in any state of the
\* session, sets the status to 'error' and the error description to a text;
\* it leaves the reconnect timer as it was, armed or not, and the attempt
\* counter and the reconnecting flag unchanged.
C23_ErrorTransition ==
  [][lastOp' = "error" =>
       /\ status' = "error"
       /\ error' # Null
       /\ reconnectTimeoutRef' = reconnectTimeoutRef
       /\ reconnectTimer' = reconnectTimer
       /\ reconnectAttemptsRef' = reconnectAttemptsRef
       /\ isReconnectingRef' = isReconnectingRef]_vars

\* a socket failed while the reconnect scheduled by the close of another one
\* was waiting
C23_Witness ==
  /\ lastOp = "error"
  /\ status = "error" /\ error = "Connection error"
  /\ reconnectTimeoutRef /\ reconnectTimer # NoTimer
  /\ reconnectAttemptsRef = 1 /\ isReconnectingRef

\* C24: disconnect() cancels the backoff timer.  After disconnect() no
\* reconnect timer is armed, so the connect it had scheduled does not run, and
\* the attempt counter is 0 and the reconnecting flag false; no heartbeat
\* timer is armed; and a socket that was held is closing or closed and no
\* longer held, the status is 'disconnected' and the queue holds no pending
\* and no buffered chunk.  A reconnect timer is armed again only by a close
\* event.
C24_DisconnectCancels ==
  /\ [][/\ lastOp' = "disconnect" =>
             /\ reconnectTimer' = NoTimer /\ ~reconnectTimeoutRef'
             /\ reconnectAttemptsRef' = 0 /\ ~isReconnectingRef'
             /\ ~heartbeatIntervalRef' /\ heartbeats' = 0
             /\ socketRef # 0 =>
                   /\ sockets'[socketRef].st \in {"CLOSING", "CLOSED"}
                   /\ socketRef' = 0
                   /\ status' = "disconnected"
                   /\ pendingChunks' = <<>>
                   /\ clientChunks' = EmptyBuffers /\ vendorChunks' = EmptyBuffers
        /\ (reconnectTimer = NoTimer /\ reconnectTimer' # NoTimer) => lastOp' = "close"
       ]_vars
  /\ [](lastOp = "disconnect" => ~ENABLED ReconnectTimerFires)

\* disconnect() was called after an abnormal close had armed the reconnect
\* timer
C24_Witness ==
  /\ lastOp = "disconnect"
  /\ lastClose.code = 1006 /\ lastClose.attempts = 0
  /\ Len(sockets) = 1 /\ sockets[1].st = "CLOSED"
  /\ reconnectTimer = NoTimer /\ reconnectAttemptsRef = 0

\* C25: a fresh manual connect() cancels the backoff timer.  A connect()
\* called by the page while the reconnect timer armed by an abnormal close is
\* waiting, with no socket open or connecting, no attempt in progress and the
\* cooldown elapsed, cancels that timer and starts the new attempt itself.
C25_ManualConnectCancels ==
  [][(/\ lastOp' = "connect"
      /\ reconnectTimeoutRef /\ reconnectTimer # NoTimer
      /\ lastClose.code \in CloseCodes \ {NormalClosure}
      /\ ~(socketRef # 0 /\ Live(socketRef))
      /\ ~connectionInProgressRef
      /\ sinceAttempt >= CooldownTicks)
     => /\ reconnectTimer' = NoTimer /\ ~reconnectTimeoutRef'
        /\ sinceAttempt' = 0
        /\ \/ Len(sockets') = Len(sockets) + 1 /\ status' = "connecting"
           \/ status' = "error"]_vars

\* a sample was encoded and the byte decoded again
RoundTripDone == pcmSample # NoSample /\ mulaw # NoByte /\ decoded # NoDecoded

\* 3% of full scale, over SampleScale * DecodeScale
RoundTripTolerance == 3 * ((SampleScale * DecodeScale) \div 100)

\* C26: codec round trip.  For every sample s = n / 32767 in [-1, 1], the
\* decoding of linearToMulaw(s) is not of the opposite sign and differs from s
\* by no more than 3% of full scale.
C26_RoundTrip ==
  RoundTripDone =>
    /\ pcmSample > 0 => decoded >= 0
    /\ pcmSample < 0 => decoded <= 0
    /\ Abs(decoded * SampleScale - pcmSample * DecodeScale) <= RoundTripTolerance

\* C27: scenario A.  linearToMulaw(1.0) is the byte whose table entry is the
\* full-scale positive value 32124; linearToMulaw(-1.0) has bit 7 set and its
\* table entry is the full-scale negative value.
C27_ScenarioA ==
  RoundTripDone =>
    /\ pcmSample = SampleScale => decoded = 32124
    /\ pcmSample = -SampleScale => (mulaw >= 128 /\ decoded = -32124)

\* C28: encoded byte layout.  For every sample, linearToMulaw returns a byte
\* in 0..255 whose bit 7 is set exactly when the sample is negative; the
\* complemented magnitude 255 - value fits the low 7 bits, so it does not
\* reach bit 7.
C28_ByteLayout ==
  (pcmSample # NoSample /\ mulaw # NoByte) =>
    /\ mulaw \in Bytes
    /\ (mulaw >= 128) <=> (pcmSample < 0)
    /\ pcmSample # 0 => 255 - MulawValue(Abs(pcmSample)) < 128

\* C29: decode table.  The table has 256 entries; the entry of a byte with
\* bit 7 flipped is the negation of the entry of the byte; every entry over
\* 32768 lies in [-1, 1]; and the decoding of a byte b is the entry of b.
C29_DecodeTable ==
  /\ Len(MULAW_DECODE_TABLE) = 256
  /\ \A b \in Bytes :
       /\ MULAW_DECODE_TABLE[((b + 128) % 256) + 1] = -MULAW_DECODE_TABLE[b + 1]
       /\ -DecodeScale <= MULAW_DECODE_TABLE[b + 1]
       /\ MULAW_DECODE_TABLE[b + 1] <= DecodeScale
  /\ decoded # NoDecoded =>
       /\ mulaw \in Bytes
       /\ decoded = MULAW_DECODE_TABLE[mulaw + 1]
       /\ -DecodeScale <= decoded /\ decoded <= DecodeScale

\* the byte 0 of an inbound payload was decoded to the full-scale negative
\* sample
C29_Witness ==
  /\ lastOp = "decode"
  /\ pcmSample = NoSample /\ mulaw = 0
  /\ decoded = -32124

\* C30: gate and call state agree and have a single writer.  In every
\* reachable state canPlayAudioRef is true exactly when activeCall.isActive is
\* true, an inactive call has callId, contactId and contactName all null, and
\* a step changes the gate or the call record only if it processes a start or
\* a stop frame: connect(), disconnect(), open, error, close, timers and the
\* queue's operations leave both unchanged.
C30_GateSingleWriter ==
  /\ [](canPlayAudioRef <=> activeCall.isActive)
  /\ [](~activeCall.isActive => activeCall = InactiveCall)
  /\ [][(activeCall' # activeCall \/ canPlayAudioRef' # canPlayAudioRef)
         => lastOp' \in {"start", "stop"}]_vars

\* disconnect() was called during a call: the call record is still active and
\* the gate still open
C30_Witness ==
  /\ lastOp = "disconnect"
  /\ socketRef = 0
  /\ activeCall.isActive
  /\ canPlayAudioRef

\* C31: a second start does not clear audio.  A start frame processed while a
\* call is active leaves the per-track stream buffers as they were and drops
\* no pending chunk: the pending FIFO is either unchanged, or it was drained
\* because the device runs, and then every chunk of it is about to be played,
\* in FIFO order.
C31_SecondStartKeepsAudio ==
  [][(lastOp' = "start" /\ activeCall.isActive)
     => /\ clientChunks' = clientChunks
        /\ vendorChunks' = vendorChunks
        /\ \/ pendingChunks' = pendingChunks
           \/ /\ pendingChunks' = <<>>
              /\ audioContext' = "running"
              /\ micro' = [k \in 1..Len(pendingChunks) |->
                             [k |-> "unit", c |-> pendingChunks[k]]]]_vars

\* A start frame found chunks pending and the device running: the chunks are
\* about to be played, and the stream buffers still hold them (a stop frame
\* in between would have emptied them, so the call was active).
C31_Witness ==
  /\ lastOp = "start"
  /\ activeCall.isActive
  /\ UnitAt # {}
  /\ pendingChunks = <<>>
  /\ \E sid \in StreamIds : clientChunks[sid] # <<>> \/ vendorChunks[sid] # <<>>

\* C32: initializeAudio reports readiness truthfully.  The isAudioContextReady
\* flag, which initializeAudio sets when it reports success, is true only in
\* states where the output device context exists and is running.
C32_ReadinessTruthful ==
  isAudioContextReady => audioContext = "running"

\* C33: heartbeat follows the connection.  At most one heartbeat timer is
\* armed; one is armed whenever status is 'connected'; none is armed after
\* the close event of a socket or after disconnect(); and a heartbeat tick
\* sends a ping only on the open socket that socketRef holds.
C33_HeartbeatFollowsConnection ==
  /\ heartbeats <= 1
  /\ status = "connected" => heartbeats = 1
  /\ lastOp \in {"close", "disconnect"} => heartbeats = 0
  /\ lastOp = "heartbeat" =>
       /\ Len(sent) <= 1
       /\ \A k \in 1..Len(sent) :
            /\ sent[k].ev = "ping"
            /\ sent[k].to = socketRef
            /\ sockets[sent[k].to].st = "OPEN"

\* C34: status matches the socket.  status is 'connected' exactly when
\* socketRef holds a socket in OPEN state, and status is 'connecting' only
\* while socketRef holds a socket in CONNECTING state.
C34_StatusMatchesSocket ==
  /\ status = "connected" <=> (socketRef # 0 /\ sockets[socketRef].st = "OPEN")
  /\ status = "connecting" =>
       (socketRef # 0 /\ sockets[socketRef].st = "CONNECTING")

C36_DisconnectIsFinal ==
  [][(/\ lastOp = "disconnect"
      /\ lastOp' \notin {"connect", "handleCommunications"})
     => /\ reconnectTimer' = NoTimer
        /\ ~reconnectTimeoutRef'
        /\ ~isReconnectingRef'
        /\ status = "disconnected" => status' = "disconnected"
        /\ Len(sockets') = Len(sockets)]_vars

\* C37: the connection timeout affects only its own attempt.  When the
\* timeout that the connect() of socket i armed fires, no other socket changes
\* (none is closed), and status or error change only if no later attempt has
\* taken socketRef and socket i has not opened.
C37_TimeoutOwnAttempt ==
  [][lastOp' = "connectionTimeout" =>
       \A i \in Sock :
         (sockets[i].timeout = 0 /\ sockets'[i].timeout = NoTimer) =>
           /\ \A j \in Sock \ {i} : sockets'[j] = sockets[j]
           /\ (status' # status \/ error' # error)
                => (socketRef \in {0, i} /\ ~sockets[i].wasOpen)]_vars

MediaAt == {k \in 1..Len(wire) : wire[k].ev = "media"}

\* C38: outbound audio keeps capture order.  The media frames the page has
\* sent for captured chunks are in the order in which the chunks were
\* captured.
C38_CaptureOrder ==
  \A i, j \in MediaAt : i < j => wire[i].cap < wire[j].cap

MarkAt(name, r) ==
  {k \in 1..Len(wire) : wire[k].ev = "mark" /\ wire[k].name = name
                                             /\ wire[k].rec = r}

\* C39: marks bracket the recorded audio.  On the open connection with an
\* active call, a media frame of a recording whose "recording_started" mark
\* was sent comes after that mark, and no media frame of a recording comes
\* after the "recording_stopped" mark of that recording.
C39_MarksBracket ==
  \A k \in MediaAt :
    /\ \A m \in MarkAt("recording_started", wire[k].rec) : m < k
    /\ \A m \in MarkAt("recording_stopped", wire[k].rec) : k < m

\* C40: silence round-trips to silence.  linearToMulaw of the sample 0 is the
\* sign bit alone, the byte 0x00, and the decoding of a bare sign byte (0x00,
\* and 0x80 for a negative sample below the threshold) is 0.
C40_SilenceRoundTrip ==
  /\ (pcmSample = 0 /\ mulaw # NoByte) => mulaw = 0
  /\ (mulaw \in {0, 128} /\ decoded # NoDecoded) => decoded = 0

====
